---- MODULE Spec2Model ----
(***************************************************************************)
(* State-machine model of the scene editor's editing core:                 *)
(*   - the zustand store (objects, selected, past, future)                 *)
(*     src/src/store/useSceneStore.ts                                      *)
(*   - the scene graph of SceneManager                                     *)
(*     src/src/core/SceneManager.ts                                        *)
(*   - SelectionManager and TransformControlsManager                       *)
(*     src/src/core/ShapeFactory.ts (lines 263-492)                        *)
(*   - the view modes of SceneManager (material references only: the       *)
(*     wireframe flag and the visibility of overlays are not modelled)     *)
(*   - the sketch controller                                               *)
(*   - the primitives of ShapeFactory, SceneExporter and SceneImporter     *)
(*     src/src/core/ShapeFactory.ts (lines 1-262),                         *)
(*     src/src/utils/exporters.ts, src/src/components/CanvasView.tsx       *)
(*     (lines 105-213)                                                     *)
(*     src/src/core/SketchManager.ts                                       *)
(*   - the UI handlers that call them                                      *)
(*     src/src/components/Toolbar.tsx, CanvasView.tsx, PropertiesPanel.tsx *)
(* A THREE.Object3D is identified with its uuid, a number in 1..MaxObjs.   *)
(***************************************************************************)
EXTENDS Integers, Sequences, FiniteSets, TLC

\* ---------------------------------------------------------------- bounds
\* Number of objects ever created (ShapeFactory.create*).
MaxObjs == 2
\* Number of entries held by past and future together.
MaxHist == 4
\* Number of drag sessions of the transform widget.
MaxDrags == 1
\* Number of grid points of the sketch plane a pointer event can hit.
MaxPoint == 2
\* Largest magnitude of a coordinate or an angle written to a file.
MaxCoord == 3
\* Number of children of an exported scene, and of records of a file.
MaxFile == 3
\* Failure notifications counted.
MaxAlerts == 2
\* The largest number a file holds (coordinates, parameters, counts).
MaxNumber == 20

\* ------------------------------------------------------------- constants
\* null: no object (selected.object, attachedObject, _startTransform).
None == 0

Objs == 1..MaxObjs

\* TransformData values an object can take in the model: the transform a
\* primitive is created with, and one that differs from it in position only,
\* one in orientation only, one in scale only.
Identity == [position |-> <<0, 0, 0>>, quaternion |-> <<0, 0, 0, 1>>, scale |-> <<1, 1, 1>>]
Moved == [position |-> <<3, 0, 0>>, quaternion |-> <<0, 0, 0, 1>>, scale |-> <<1, 1, 1>>]
Rotated == [position |-> <<0, 0, 0>>, quaternion |-> <<0, 1, 0, 0>>, scale |-> <<1, 1, 1>>]
Scaled == [position |-> <<0, 0, 0>>, quaternion |-> <<0, 0, 0, 1>>, scale |-> <<2, 2, 2>>]
Xforms == {Identity, Moved, Rotated, Scaled}

\* _startTransform = null
NoStart == [uuid |-> None]

\* Materials of an object's mesh, by kind.
Standard == "standard"
Highlight == "highlight"
\* The MeshBasicMaterial setViewMode puts on a mesh in wireframe mode.
Wireframe == "wireframe"
NoMaterial == "none"
ViewModes == {"wireframe", "default", "realistic"}

\* Sketch tools (currentTool = null is NoTool) and points <<x, z>> of the
\* sketch plane, in thousandths; a pointer event that misses the plane has
\* the point NoPoint.
Tools == {"rectangle", "circle"}
NoTool == "no tool"
NoPoint == <<>>
PlanePoints == << <<0, 0>>, <<2000, 1000>>, <<500, 1500>>, <<1000, 500>> >>
Points == {PlanePoints[i] : i \in 1..MaxPoint}
\* previewMesh = null
NoPreview == [start |-> NoPoint, end |-> NoPoint]

VARIABLES
    objects,            \* store.objects: sequence of objects
    selected,           \* store.selected.object
    past,               \* store.past: sequence of history entries
    future,             \* store.future
    scene,              \* objects that are children of SceneManager.scene
    xform,              \* position/quaternion/scale of every object
    created,            \* number of objects created so far
    attachedObject,     \* TransformControlsManager.attachedObject
    startTransform,     \* TransformControlsManager._startTransform
    dragging,           \* TransformControls.dragging
    axis,               \* TransformControls.axis # null
    material,           \* mesh.material of every object
    originalMaterials,  \* SelectionManager.originalMaterials
    drags,              \* number of drag sessions started so far
    clearRun,           \* the object list emptied by the last clearAll and the
                        \* number of undos issued since, with nothing in between
    orbitEnabled,       \* OrbitControls.enabled
    mode,               \* store.mode: "3D" or "SKETCH"
    selectedSketchTool, \* Toolbar's selectedSketchTool
    currentTool,        \* SketchManager.currentTool
    sketchPlaneVisible, \* SketchManager.sketchPlane.visible
    gridVisible,        \* SketchManager.gridHelper.visible
    isDrawing,          \* SketchManager.isDrawing
    startPoint,         \* SketchManager.startPoint
    previewMesh,        \* SketchManager.previewMesh, in the scene when set
    previewsInScene,    \* how many preview meshes are children of the scene
    hollow,             \* SketchManager.hollow
    polygonSides,       \* SketchManager.polygonSides
    extrudeEnabled,     \* SketchManager.extrudeEnabled
    extrudeDepth,       \* SketchManager.extrudeDepth
    snapToGrid,         \* SketchManager.snapToGrid
    gridSize,           \* SketchManager.gridSize
    gridInScene,        \* SketchManager.gridHelper is a child of the scene
    sketchOptions,      \* Toolbar's hollow, snapToGrid, gridSize, polygonSides
    built,              \* what the last shape operation of the SketchManager
                        \* returned: a profile, a group, or nothing yet
    viewMode,           \* SceneManager.viewMode
    wireframeOriginals, \* SceneManager._wireframeOriginals
    preWire,            \* the material every object of the scene had right
                        \* before the view last changed to wireframe
    edgesVisible,       \* visible of the edge outline (LineSegments) of every object
    helpers,            \* visible of the ground grid and of the axes helper
    visible,            \* visible of every object
    transformMode,      \* store.transformMode, the mode of the transform widget
    children,           \* scene.children handed to SceneExporter.exportScene
    jsonData,           \* the text it returned
    importedObjects,    \* what SceneImporter.importScene made of that text
    alerts              \* number of alert() notifications shown

vars == <<objects, selected, past, future, scene, xform, created, attachedObject,
          startTransform, dragging, axis, material, originalMaterials,
          drags, clearRun, orbitEnabled, mode, selectedSketchTool, currentTool,
          sketchPlaneVisible, gridVisible, isDrawing, startPoint, previewMesh,
          previewsInScene, viewMode, wireframeOriginals, preWire,
          children, jsonData, importedObjects, alerts, hollow, polygonSides,
          extrudeEnabled, extrudeDepth, snapToGrid, gridSize, gridInScene,
          sketchOptions, built, edgesVisible, helpers, visible, transformMode>>

storeVars == <<objects, selected, past, future>>
widgetVars == <<attachedObject, startTransform, dragging, axis, drags>>
materialVars == <<material, originalMaterials>>
sketchVars == <<mode, selectedSketchTool, currentTool, sketchPlaneVisible, gridVisible,
                isDrawing, startPoint, previewMesh, previewsInScene, hollow,
                polygonSides, extrudeEnabled, extrudeDepth, snapToGrid, gridSize,
                gridInScene, sketchOptions, built>>
\* What the editing commands of the toolbar and the panels leave alone.
viewVars == <<viewMode, wireframeOriginals, preWire, edgesVisible, helpers, visible,
              transformMode>>
ioVars == <<children, jsonData, importedObjects, alerts>>
uiVars == <<sketchVars, viewVars, ioVars>>

\* ---------------------------------------------------------------- helpers
Range(s) == {s[i] : i \in 1..Len(s)}

\* state.objects.filter((o) => o.uuid !== object.uuid)
Filter(s, object) == SelectSeq(s, LAMBDA o : o # object)

Front(s) == SubSeq(s, 1, Len(s) - 1)
Last(s) == s[Len(s)]

\* Number.prototype.toString on the integers of the model, and
\* Array.prototype.toString: the elements' strings joined by ",".
NumToString(n) == ToString(n)
ArrToString(a) == IF Len(a) = 3
        THEN NumToString(a[1]) \o "," \o NumToString(a[2]) \o "," \o NumToString(a[3])
        ELSE NumToString(a[1]) \o "," \o NumToString(a[2]) \o "," \o NumToString(a[3])
             \o "," \o NumToString(a[4])

\* An entry literal { type, ... } is a new object. It is numbered by the place
\* of past it is created at: the entries that stay in past have smaller
\* numbers, and the update that creates it drops the entries of future.
NextId(p) == Len(p) + 1

AddEntry(id, object) == [id |-> id, type |-> "add", object |-> object]
RemoveEntry(id, object) == [id |-> id, type |-> "remove", object |-> object]
TransformEntry(id, uuid, before, after) ==
    [id |-> id, type |-> "transform", uuid |-> uuid, before |-> before, after |-> after]

\* The TransformData part of a snapshot (a _startTransform also carries uuid).
Snapshot(t) == [position |-> t.position, quaternion |-> t.quaternion, scale |-> t.scale]

\* ------------------------------------------------------------------ store
\* addObject that keeps the redo stack.
addObjectKeepsFuture(object) ==
    /\ objects' = Append(objects, object)
    /\ past' = Append(past, AddEntry(NextId(past), object))
    /\ future' = future

\* addObject: objects, past and future after the call.
addObject(object) ==
    /\ objects' = Append(objects, object)
    /\ past' = Append(past, AddEntry(NextId(past), object))
    /\ future' = <<>>

removeObject(object) ==
    /\ objects' = Filter(objects, object)
    /\ past' = Append(past, RemoveEntry(NextId(past), object))
    /\ future' = <<>>

\* A `same` test that looks at the position only.
SamePosition(before, after) ==
    ArrToString(before.position) = ArrToString(after.position)

\* The `same` test of recordTransform.
SameTransform(before, after) ==
    /\ ArrToString(before.position) = ArrToString(after.position)
    /\ ArrToString(before.quaternion) = ArrToString(after.quaternion)
    /\ ArrToString(before.scale) = ArrToString(after.scale)

recordTransform(uuid, before, after) ==
    IF SameTransform(before, after)
    THEN UNCHANGED <<past, future>>
    ELSE /\ past' = Append(past, TransformEntry(NextId(past), uuid, before, after))
         /\ future' = <<>>

\* The state the store's undo and redo read and write: the store's own
\* fields, and the scene and the objects' transforms they update through the
\* SceneManager they are handed.
EditState == [objects |-> objects, past |-> past, future |-> future,
              scene |-> scene, xform |-> xform]

\* o.position.set / o.quaternion.set / o.scale.set for the object of a
\* transform entry, when it is found in the object list or in the scene.
ApplyTransform(st, uuid, t) ==
    IF uuid \in Range(st.objects) \/ uuid \in st.scene
    THEN [st.xform EXCEPT ![uuid] = Snapshot(t)]
    ELSE st.xform

\* undo that leaves the undone entry on past.
undoKeepsPast(st) ==
    IF Len(st.past) = 0
    THEN st
    ELSE LET op == Last(st.past)
             popped == [st EXCEPT !.future = Append(st.future, op)]
         IN  IF op.type = "add"
             THEN [popped EXCEPT !.objects = Filter(st.objects, op.object),
                                 !.scene = st.scene \ {op.object}]
             ELSE IF op.type = "remove"
             THEN [popped EXCEPT !.objects = Append(st.objects, op.object),
                                 !.scene = st.scene \cup {op.object}]
             ELSE [popped EXCEPT !.xform = ApplyTransform(st, op.uuid, op.before)]

\* undo: the state returned for state st.
undo(st) ==
    IF Len(st.past) = 0
    THEN st
    ELSE LET op == Last(st.past)
             popped == [st EXCEPT !.past = Front(st.past), !.future = Append(st.future, op)]
         IN  IF op.type = "add"
             THEN [popped EXCEPT !.objects = Filter(st.objects, op.object),
                                 !.scene = st.scene \ {op.object}]
             ELSE IF op.type = "remove"
             THEN [popped EXCEPT !.objects = Append(st.objects, op.object),
                                 !.scene = st.scene \cup {op.object}]
             ELSE [popped EXCEPT !.xform = ApplyTransform(st, op.uuid, op.before)]

\* redo that, finding nothing to redo, drops the undo stack.
redoDropsPast(st) ==
    IF Len(st.future) = 0
    THEN [st EXCEPT !.past = <<>>]
    ELSE LET op == Last(st.future)
             popped == [st EXCEPT !.future = Front(st.future), !.past = Append(st.past, op)]
         IN  IF op.type = "add"
             THEN [popped EXCEPT !.objects = Append(st.objects, op.object),
                                 !.scene = st.scene \cup {op.object}]
             ELSE IF op.type = "remove"
             THEN [popped EXCEPT !.objects = Filter(st.objects, op.object),
                                 !.scene = st.scene \ {op.object}]
             ELSE [popped EXCEPT !.xform = ApplyTransform(st, op.uuid, op.after)]

\* redo: the state returned for state st.
redo(st) ==
    IF Len(st.future) = 0
    THEN st
    ELSE LET op == Last(st.future)
             popped == [st EXCEPT !.future = Front(st.future), !.past = Append(st.past, op)]
         IN  IF op.type = "add"
             THEN [popped EXCEPT !.objects = Append(st.objects, op.object),
                                 !.scene = st.scene \cup {op.object}]
             ELSE IF op.type = "remove"
             THEN [popped EXCEPT !.objects = Filter(st.objects, op.object),
                                 !.scene = st.scene \ {op.object}]
             ELSE [popped EXCEPT !.xform = ApplyTransform(st, op.uuid, op.after)]

\* set(...): the returned state becomes the current one.
SetEditState(st) ==
    /\ objects' = st.objects
    /\ past' = st.past
    /\ future' = st.future
    /\ scene' = st.scene
    /\ xform' = st.xform

\* The removals pushed last object first.
RECURSIVE PushRemovesReversed(_, _)
PushRemovesReversed(p, objs) ==
    IF objs = <<>>
    THEN p
    ELSE PushRemovesReversed(Append(p, RemoveEntry(NextId(p), objs[Len(objs)])),
                             SubSeq(objs, 1, Len(objs) - 1))

\* state.objects.forEach((obj) => past.push({ type: "remove", object: obj }))
RECURSIVE PushRemoves(_, _)
PushRemoves(p, objs) ==
    IF objs = <<>>
    THEN p
    ELSE PushRemoves(Append(p, RemoveEntry(NextId(p), Head(objs))), Tail(objs))

clearAll ==
    IF Len(objects) = 0
    THEN UNCHANGED <<objects, past, future, scene>>
    ELSE /\ past' = PushRemoves(past, objects)
         /\ future' = <<>>
         /\ scene' = scene \ Range(objects)
         /\ objects' = <<>>

removeSelected ==
    IF selected = None
    THEN UNCHANGED <<objects, past, future, scene, selected>>
    ELSE /\ past' = Append(past, RemoveEntry(NextId(past), selected))
         /\ objects' = Filter(objects, selected)
         /\ scene' = scene \ {selected}
         /\ future' = <<>>
         /\ selected' = None

\* A setObjectVisibility that drops the redo stack.
setObjectVisibilityClearsFuture(object, shown) ==
    /\ visible' = IF object \in Range(objects)
                  THEN [visible EXCEPT ![object] = shown]
                  ELSE visible
    /\ future' = <<>>
    /\ UNCHANGED <<objects, selected, past>>

\* setObjectVisibility: visible is set on the objects of the list with the
\* uuid of the given one; the rest of the state is returned as it was.
setObjectVisibility(object, shown) ==
    /\ visible' = IF object \in Range(objects)
                  THEN [visible EXCEPT ![object] = shown]
                  ELSE visible
    /\ UNCHANGED <<objects, selected, past, future>>

\* toggleSelectedVisibility: visible of the selected object flips; its place
\* in the list is taken by a copy with the same uuid.
toggleSelectedVisibility ==
    /\ visible' = IF selected = None
                  THEN visible
                  ELSE [visible EXCEPT ![selected] = ~visible[selected]]
    /\ UNCHANGED <<objects, selected, past, future>>

TransformModes == {"translate", "rotate", "scale"}
setTransformMode(newMode) ==
    /\ transformMode' = newMode
    /\ UNCHANGED <<objects, selected, past, future>>

\* ------------------------------------------------------- SelectionManager
\* Mesh materials and the originalMaterials map after clearSelection().
ClearedMaterial ==
    IF selected # None /\ originalMaterials[selected] # NoMaterial
    THEN [material EXCEPT ![selected] = originalMaterials[selected]]
    ELSE material

ClearedOriginals ==
    IF selected # None /\ originalMaterials[selected] # NoMaterial
    THEN [originalMaterials EXCEPT ![selected] = NoMaterial]
    ELSE originalMaterials

clearSelection ==
    /\ material' = ClearedMaterial
    /\ originalMaterials' = ClearedOriginals
    /\ selected' = None

\* selectObject that saves the material after putting the highlight on.
selectObjectSavesHighlight(object) ==
    /\ originalMaterials' = [ClearedOriginals EXCEPT ![object] = Highlight]
    /\ material' = [ClearedMaterial EXCEPT ![object] = Highlight]
    /\ selected' = object

selectObject(object) ==
    /\ originalMaterials' = [ClearedOriginals EXCEPT ![object] = ClearedMaterial[object]]
    /\ material' = [ClearedMaterial EXCEPT ![object] = Highlight]
    /\ selected' = object

\* ------------------------------------------------ TransformControlsManager
\* controls.detach() drops the widget's axis; the object is then attached.
attachToObject(object) ==
    /\ axis' = FALSE
    /\ attachedObject' = object

\* The dragging-changed listener, event.value = true.
DragStarted ==
    /\ orbitEnabled' = FALSE
    /\ startTransform' =
        IF attachedObject # None
        THEN [uuid |-> attachedObject,
              position |-> xform[attachedObject].position,
              quaternion |-> xform[attachedObject].quaternion,
              scale |-> xform[attachedObject].scale]
        ELSE NoStart

\* The dragging-changed listener, event.value = false.
DragEnded ==
    /\ orbitEnabled' = TRUE
    /\ IF /\ attachedObject # None
          /\ startTransform # NoStart
          /\ startTransform.uuid = attachedObject
       THEN recordTransform(attachedObject, Snapshot(startTransform), xform[attachedObject])
       ELSE UNCHANGED <<past, future>>
    /\ startTransform' = NoStart

\* ------------------------------------------------------------ ShapeFactory
\* A group as the exporter and the importer see it: its metadata, the
\* arguments its geometry was built with, and its transform (rotation: the
\* Euler angles x, y, z).
NewGroup(type, parameters, geometry, faceCount, edgeCount) ==
    [metadata |-> [type |-> type, parameters |-> parameters,
                   faceCount |-> faceCount, edgeCount |-> edgeCount],
     geometry |-> geometry,
     position |-> <<0, 0, 0>>, rotation |-> <<0, 0, 0>>, scale |-> <<1, 1, 1>>]

createBox(width, height, depth) ==
    NewGroup("box", [width |-> width, height |-> height, depth |-> depth],
             <<width, height, depth>>, 6, 12)

createCone(radius, height, radialSegments) ==
    NewGroup("cone",
             [radius |-> radius, height |-> height, radialSegments |-> radialSegments],
             <<radius, height, radialSegments>>,
             radialSegments + 1, radialSegments * 3)

createTorus(radius, tube, radialSegments, tubularSegments) ==
    NewGroup("torus",
             [radius |-> radius, tube |-> tube, radialSegments |-> radialSegments,
              tubularSegments |-> tubularSegments],
             <<radius, tube, radialSegments, tubularSegments>>,
             radialSegments * tubularSegments, radialSegments * tubularSegments)

createPlane(width, height) ==
    NewGroup("plane", [width |-> width, height |-> height], <<width, height>>, 2, 4)

\* A sphere factory that reports as many edges as faces.
createSphereEdgesAsFaces(radius, widthSegments, heightSegments) ==
    NewGroup("sphere",
             [radius |-> radius, widthSegments |-> widthSegments,
              heightSegments |-> heightSegments],
             <<radius, widthSegments, heightSegments>>,
             widthSegments * heightSegments, widthSegments * heightSegments)

createSphere(radius, widthSegments, heightSegments) ==
    NewGroup("sphere",
             [radius |-> radius, widthSegments |-> widthSegments,
              heightSegments |-> heightSegments],
             <<radius, widthSegments, heightSegments>>,
             widthSegments * heightSegments, widthSegments * heightSegments * 2)

createCylinder(radiusTop, radiusBottom, height, radialSegments) ==
    NewGroup("cylinder",
             [radiusTop |-> radiusTop, radiusBottom |-> radiusBottom,
              height |-> height, radialSegments |-> radialSegments],
             <<radiusTop, radiusBottom, height, radialSegments>>,
             radialSegments + 2, radialSegments * 3)

\* createExtrudedShape: the profile and the settings stand for themselves.
createExtrudedShape(shape, extrudeSettings) ==
    NewGroup("extruded", [shape |-> shape, extrudeSettings |-> extrudeSettings],
             <<shape, extrudeSettings>>, 0, 0)

\* ------------------------------------------- SceneExporter, SceneImporter
\* The numbers a file can hold, and JSON's text for them.
Numbers == (0 - MaxNumber)..MaxNumber
NumberOfText ==
    [text \in {NumToString(n) : n \in Numbers} |->
        CHOOSE n \in Numbers : NumToString(n) = text]
ParseNum(text) == NumberOfText[text]

\* child.userData.metadata is undefined (lights, helpers, overlays).
NoMetadata == [none |-> TRUE]
\* metadata.type; a sketched group's metadata has a tool and no type.
TypeOf(metadata) == IF "type" \in DOMAIN metadata THEN metadata.type ELSE "undefined"

\* A SerializedObject that leaves the scale at its default.
SerializedDropsScale(child) ==
    [metadata |-> child.metadata,
     position |-> [x |-> child.position[1], y |-> child.position[2], z |-> child.position[3]],
     rotation |-> [x |-> child.rotation[1], y |-> child.rotation[2], z |-> child.rotation[3]],
     scale |-> [x |-> 1, y |-> 1, z |-> 1]]

\* The SerializedObject exportScene builds for a child.
Serialized(child) ==
    [metadata |-> child.metadata,
     position |-> [x |-> child.position[1], y |-> child.position[2], z |-> child.position[3]],
     rotation |-> [x |-> child.rotation[1], y |-> child.rotation[2], z |-> child.rotation[3]],
     scale |-> [x |-> child.scale[1], y |-> child.scale[2], z |-> child.scale[3]]]

\* The SceneData of the children that carry metadata, in scene order.
SceneDataOf(sceneChildren) ==
    LET withMetadata == SelectSeq(sceneChildren, LAMBDA child : child.metadata # NoMetadata)
    IN  [version |-> "1.0.0",
         objects |-> [i \in 1..Len(withMetadata) |-> Serialized(withMetadata[i])]]

\* JSON.stringify and JSON.parse on a SceneData: every number becomes its
\* text and back.  A text with a syntax error has no data.
StringifyNumbers(r) == [f \in DOMAIN r |-> NumToString(r[f])]
ParseNumbers(r) == [f \in DOMAIN r |-> ParseNum(r[f])]

StringifyMetadata(metadata) ==
    IF "type" \in DOMAIN metadata
    THEN [type |-> metadata.type,
          parameters |-> StringifyNumbers(metadata.parameters),
          faceCount |-> NumToString(metadata.faceCount),
          edgeCount |-> NumToString(metadata.edgeCount)]
    ELSE metadata

ParseMetadata(metadata) ==
    IF "type" \in DOMAIN metadata
    THEN [type |-> metadata.type,
          parameters |-> ParseNumbers(metadata.parameters),
          faceCount |-> ParseNum(metadata.faceCount),
          edgeCount |-> ParseNum(metadata.edgeCount)]
    ELSE metadata

JSONstringify(data) ==
    [syntaxError |-> FALSE,
     version |-> data.version,
     objects |-> [i \in 1..Len(data.objects) |->
        [metadata |-> StringifyMetadata(data.objects[i].metadata),
         position |-> StringifyNumbers(data.objects[i].position),
         rotation |-> StringifyNumbers(data.objects[i].rotation),
         scale |-> StringifyNumbers(data.objects[i].scale)]]]

JSONparse(text) ==
    [version |-> text.version,
     objects |-> [i \in 1..Len(text.objects) |->
        [metadata |-> ParseMetadata(text.objects[i].metadata),
         position |-> ParseNumbers(text.objects[i].position),
         rotation |-> ParseNumbers(text.objects[i].rotation),
         scale |-> ParseNumbers(text.objects[i].scale)]]]

\* A text JSON.parse rejects; the empty text is one.
Malformed == [syntaxError |-> TRUE]

exportScene(sceneChildren) == JSONstringify(SceneDataOf(sceneChildren))

\* deserializeObject returns null.
NoObject == [null |-> TRUE]

deserializeObject(serializedObj) ==
    LET metadata == serializedObj.metadata
        type == TypeOf(serializedObj.metadata)
        parameters == serializedObj.metadata.parameters
        obj ==
            CASE type = "box" ->
                    createBox(parameters.width, parameters.height, parameters.depth)
              [] type = "cone" ->
                    createCone(parameters.radius, parameters.height, parameters.radialSegments)
              [] type = "torus" ->
                    createTorus(parameters.radius, parameters.tube,
                                parameters.radialSegments, parameters.tubularSegments)
              [] type = "plane" ->
                    createPlane(parameters.width, parameters.height)
              [] type = "sphere" ->
                    createSphere(parameters.radius, parameters.widthSegments,
                                 parameters.heightSegments)
              [] type = "cylinder" ->
                    createCylinder(parameters.radiusTop, parameters.radiusBottom,
                                   parameters.height, parameters.radialSegments)
              [] OTHER -> NoObject
    IN  IF obj = NoObject
        THEN NoObject
        ELSE [obj EXCEPT
                !.position = <<serializedObj.position.x, serializedObj.position.y,
                               serializedObj.position.z>>,
                !.rotation = <<serializedObj.rotation.x, serializedObj.rotation.y,
                               serializedObj.rotation.z>>,
                !.scale = <<serializedObj.scale.x, serializedObj.scale.y,
                            serializedObj.scale.z>>,
                !.metadata = metadata]

\* importScene that gives up on a file with an extruded record.
importSceneFailsOnExtruded(text) ==
    IF text.syntaxError
    THEN <<>>
    ELSE LET sceneData == JSONparse(text)
             objs == [i \in 1..Len(sceneData.objects) |->
                        deserializeObject(sceneData.objects[i])]
         IN  IF \E i \in 1..Len(sceneData.objects) :
                    TypeOf(sceneData.objects[i].metadata) = "extruded"
             THEN <<>>
             ELSE SelectSeq(objs, LAMBDA obj : obj # NoObject)

\* importScene: the objects of the file's records, the records that give no
\* object left out; no object at all when the text does not parse.
importScene(text) ==
    IF text.syntaxError
    THEN <<>>
    ELSE LET sceneData == JSONparse(text)
             objs == [i \in 1..Len(sceneData.objects) |->
                        deserializeObject(sceneData.objects[i])]
         IN  SelectSeq(objs, LAMBDA obj : obj # NoObject)

\* ------------------------------------------------------------ SceneManager
\* Materials after the pass that leaves wireframe newMode: every mesh of the
\* scene with a saved original takes it back.
RestoredMaterial(newMode) ==
    [o \in Objs |->
        IF /\ viewMode = "wireframe" /\ newMode # "wireframe"
           /\ o \in scene /\ wireframeOriginals[o] # NoMaterial
        THEN wireframeOriginals[o]
        ELSE material[o]]

\* _wireframeOriginals after that pass: the entries taken back are deleted.
RestoredOriginals(newMode) ==
    [o \in Objs |->
        IF /\ viewMode = "wireframe" /\ newMode # "wireframe"
           /\ o \in scene
        THEN NoMaterial
        ELSE wireframeOriginals[o]]

\* setViewMode that leaves the ground grid and the axes as they are.
setViewModeKeepsHelpers(newMode) ==
    /\ IF newMode = "wireframe"
       THEN /\ wireframeOriginals' =
                [o \in Objs |->
                    IF o \in scene /\ RestoredOriginals(newMode)[o] = NoMaterial
                    THEN RestoredMaterial(newMode)[o]
                    ELSE RestoredOriginals(newMode)[o]]
            /\ material' =
                [o \in Objs |->
                    IF o \in scene /\ RestoredOriginals(newMode)[o] = NoMaterial
                    THEN Wireframe
                    ELSE RestoredMaterial(newMode)[o]]
            /\ UNCHANGED <<edgesVisible, helpers, gridVisible>>
       ELSE /\ wireframeOriginals' = RestoredOriginals(newMode)
            /\ material' = RestoredMaterial(newMode)
            /\ edgesVisible' =
                [o \in Objs |->
                    IF o \in scene THEN newMode # "realistic" ELSE edgesVisible[o]]
            /\ helpers' = helpers
            /\ gridVisible' = IF gridInScene THEN newMode # "realistic" ELSE gridVisible
    /\ viewMode' = newMode

setViewMode(newMode) ==
    /\ IF newMode = "wireframe"
       THEN /\ wireframeOriginals' =
                [o \in Objs |->
                    IF o \in scene /\ RestoredOriginals(newMode)[o] = NoMaterial
                    THEN RestoredMaterial(newMode)[o]
                    ELSE RestoredOriginals(newMode)[o]]
            /\ material' =
                [o \in Objs |->
                    IF o \in scene /\ RestoredOriginals(newMode)[o] = NoMaterial
                    THEN Wireframe
                    ELSE RestoredMaterial(newMode)[o]]
            /\ UNCHANGED <<edgesVisible, helpers, gridVisible>>
       ELSE /\ wireframeOriginals' = RestoredOriginals(newMode)
            /\ material' = RestoredMaterial(newMode)
            /\ edgesVisible' =
                [o \in Objs |->
                    IF o \in scene THEN newMode # "realistic" ELSE edgesVisible[o]]
            /\ helpers' = [grid |-> newMode # "realistic", axes |-> newMode # "realistic"]
            /\ gridVisible' = IF gridInScene THEN newMode # "realistic" ELSE gridVisible
    /\ viewMode' = newMode

\* ----------------------------------------------------------- SketchManager
\* The numbers of the sketch controller are fixed-point: Unit stands for 1, so
\* 10 is 0.01 and 500 is 0.5.  A product is scaled back, and rounded down to
\* a multiple of 0.001.
Unit == 1000
\* gridSize = 0.5 and extrudeDepth = 0.2 at construction.
DefaultGridSize == 500
DefaultExtrudeDepth == 200
\* No shape operation has returned anything yet.
NoResult == [op |-> "none"]
Times(a, b) == (a * b) \div Unit
Floor(a) == (a \div Unit) * Unit
Max(a, b) == IF a >= b THEN a ELSE b
Min(a, b) == IF a <= b THEN a ELSE b
Abs(a) == IF a < 0 THEN 0 - a ELSE a

\* The largest r of lo..hi with r * r <= n.
RECURSIVE SqrtBetween(_, _, _)
SqrtBetween(n, lo, hi) ==
    IF lo = hi
    THEN lo
    ELSE LET mid == (lo + hi + 1) \div 2
         IN  IF mid * mid <= n
             THEN SqrtBetween(n, mid, hi)
             ELSE SqrtBetween(n, lo, mid - 1)

\* Math.sqrt, rounded down to a multiple of 0.001.
Sqrt(n) == SqrtBetween(n, 0, Min(n, 46340))

\* The fields the sketch controller reads and writes, the enabled flag of the
\* orbit controls it shares with the SceneManager included.
SketchState ==
    [currentTool |-> currentTool, sketchPlaneVisible |-> sketchPlaneVisible,
     gridVisible |-> gridVisible, isDrawing |-> isDrawing,
     startPoint |-> startPoint, previewMesh |-> previewMesh,
     previewsInScene |-> previewsInScene,
     orbitEnabled |-> orbitEnabled,
     hollow |-> hollow, polygonSides |-> polygonSides,
     extrudeEnabled |-> extrudeEnabled, extrudeDepth |-> extrudeDepth,
     snapToGrid |-> snapToGrid, gridSize |-> gridSize, gridInScene |-> gridInScene]

SetSketchState(st) ==
    /\ currentTool' = st.currentTool
    /\ sketchPlaneVisible' = st.sketchPlaneVisible
    /\ gridVisible' = st.gridVisible
    /\ isDrawing' = st.isDrawing
    /\ startPoint' = st.startPoint
    /\ previewMesh' = st.previewMesh
    /\ previewsInScene' = st.previewsInScene
    /\ orbitEnabled' = st.orbitEnabled
    /\ hollow' = st.hollow
    /\ polygonSides' = st.polygonSides
    /\ extrudeEnabled' = st.extrudeEnabled
    /\ extrudeDepth' = st.extrudeDepth
    /\ snapToGrid' = st.snapToGrid
    /\ gridSize' = st.gridSize
    /\ gridInScene' = st.gridInScene

\* The preview, when there is one, leaves the scene and previewMesh becomes
\* null.
clearPreview(st) ==
    IF st.previewMesh # NoPreview
    THEN [st EXCEPT !.previewMesh = NoPreview,
                    !.previewsInScene = st.previewsInScene - 1]
    ELSE st

\* An argument that is not passed is None: it is falsy, like undefined.
enableSketchMode(st, tool, hollowArg, sidesArg) ==
    [st EXCEPT !.currentTool = tool,
               !.hollow = hollowArg,
               !.polygonSides =
                    IF sidesArg # None /\ sidesArg >= 3 * Unit
                    THEN Floor(sidesArg)
                    ELSE st.polygonSides,
               !.sketchPlaneVisible = TRUE,
               !.gridVisible = TRUE,
               !.gridInScene = TRUE,
               !.orbitEnabled = FALSE]

setSnapToGrid(st, enabled) == [st EXCEPT !.snapToGrid = enabled]

\* The grid helper is replaced by a new one, which is put in the scene.
setGridSize(st, size) ==
    [st EXCEPT !.gridSize = Max(10, size),
               !.gridVisible = (st.currentTool # NoTool),
               !.gridInScene = TRUE]

setHollow(st, h) == [st EXCEPT !.hollow = h]

setExtrude(st, enabled) == [st EXCEPT !.extrudeEnabled = enabled]

setExtrudeDepth(st, depth) == [st EXCEPT !.extrudeDepth = Max(0, depth)]

\* A disable that flips the orbit controls instead of enabling them.
disableSketchModeFlipsOrbit(st) ==
    [clearPreview(st) EXCEPT !.currentTool = NoTool,
                             !.sketchPlaneVisible = FALSE,
                             !.gridVisible = FALSE,
                             !.orbitEnabled = ~st.orbitEnabled]

disableSketchMode(st) ==
    [clearPreview(st) EXCEPT !.currentTool = NoTool,
                             !.sketchPlaneVisible = FALSE,
                             !.gridVisible = FALSE,
                             !.orbitEnabled = TRUE]

\* ---- shapes.  A point of the work-plane is <<x, z>>; a point of a profile
\* is <<x, y>>.
distanceTo(a, b) ==
    Sqrt((a[1] - b[1]) * (a[1] - b[1]) + (a[2] - b[2]) * (a[2] - b[2]))

\* getIntersectionPoint: hit is where the pointer's ray meets the sketch
\* plane, or NoPoint when it misses it.  Math.round rounds halves up.
Round(a, step) == ((2 * a + step) \div (2 * step)) * step

getIntersectionPoint(st, hit) ==
    IF hit = NoPoint
    THEN NoPoint
    ELSE IF st.snapToGrid
         THEN <<Round(hit[1], st.gridSize), Round(hit[2], st.gridSize)>>
         ELSE hit

\* The boundaries of a profile: a polyline through its points; a full arc
\* (absarc); the points of an ellipse or of a circle sampled at equal
\* angles; the corners of a regular polygon at equal angles.  The angles
\* 2 pi i/n are not evaluated: such a boundary is given by its radii and its
\* number of points.
Polyline(points) == [kind |-> "polyline", points |-> points]
Arc(radius) == [kind |-> "arc", radius |-> radius]
Sampled(xRadius, yRadius, count) ==
    [kind |-> "sampled", xRadius |-> xRadius, yRadius |-> yRadius, count |-> count]
Regular(sides, radius) == [kind |-> "regular", sides |-> sides, radius |-> radius]

\* buildShape and buildOutlinePoints returning null and [].
NoShape == [kind |-> "null"]
NoPoints == Polyline(<<>>)

\* sides of the polygon tool: Math.max(3, Math.floor(this.polygonSides || 5)).
PolygonSidesOf(st) ==
    Max(3 * Unit, Floor(IF st.polygonSides = 0 THEN 5 * Unit ELSE st.polygonSides)) \div Unit

buildOutlinePoints(st, start, end) ==
    LET w == Abs(end[1] - start[1])
        d == Abs(end[2] - start[2])
    IN  CASE st.currentTool = "rectangle" ->
                Polyline(<< <<0 - w \div 2, 0 - d \div 2>>, <<w \div 2, 0 - d \div 2>>,
                            <<w \div 2, d \div 2>>, <<0 - w \div 2, d \div 2>> >>)
          [] st.currentTool = "circle" ->
                Sampled(distanceTo(start, end), distanceTo(start, end), 64)
          [] st.currentTool = "triangle" ->
                Polyline(<< <<0, d \div 2>>, <<w \div 2, 0 - d \div 2>>,
                            <<0 - w \div 2, 0 - d \div 2>> >>)
          [] st.currentTool = "ellipse" -> Sampled(w, d, 64)
          [] st.currentTool = "polygon" ->
                Regular(PolygonSidesOf(st), distanceTo(start, end))
          [] OTHER -> NoPoints

\* A THREE.Shape: its outer boundary and its holes.
Shape(outer, holes) == [kind |-> "shape", outer |-> outer, holes |-> holes]

buildShape(st, start, end) ==
    LET width == Abs(end[1] - start[1])
        depth == Abs(end[2] - start[2])
        radius == distanceTo(start, end)
        insetX == Max(Times(width, 80), 10)
        insetZ == Max(Times(depth, 80), 10)
    IN  CASE st.currentTool = "rectangle" ->
                Shape(Polyline(<< <<0 - width \div 2, 0 - depth \div 2>>,
                                  <<width \div 2, 0 - depth \div 2>>,
                                  <<width \div 2, depth \div 2>>,
                                  <<0 - width \div 2, depth \div 2>>,
                                  <<0 - width \div 2, 0 - depth \div 2>> >>),
                      IF st.hollow
                      THEN << Polyline(<< <<0 - width \div 2 + insetX, 0 - depth \div 2 + insetZ>>,
                                          <<width \div 2 - insetX, 0 - depth \div 2 + insetZ>>,
                                          <<width \div 2 - insetX, depth \div 2 - insetZ>>,
                                          <<0 - width \div 2 + insetX, depth \div 2 - insetZ>>,
                                          <<0 - width \div 2 + insetX, 0 - depth \div 2 + insetZ>> >>) >>
                      ELSE <<>>)
          [] st.currentTool = "circle" ->
                Shape(Arc(radius),
                      IF st.hollow THEN << Arc(Max(Times(radius, 600), 10)) >> ELSE <<>>)
          [] st.currentTool = "triangle" ->
                Shape(Polyline(<< <<0, depth \div 2>>, <<width \div 2, 0 - depth \div 2>>,
                                  <<0 - width \div 2, 0 - depth \div 2>>, <<0, depth \div 2>> >>),
                      IF st.hollow
                      THEN << Polyline(<< <<0, Times(depth \div 2, 600)>>,
                                          <<Times(width \div 2, 600), Times(0 - depth \div 2, 600)>>,
                                          <<Times(0 - width \div 2, 600), Times(0 - depth \div 2, 600)>>,
                                          <<0, Times(depth \div 2, 600)>> >>) >>
                      ELSE <<>>)
          [] st.currentTool = "ellipse" ->
                Shape(Sampled(width, depth, 65),
                      IF st.hollow
                      THEN << Sampled(Max(Times(width, 600), 10), Max(Times(depth, 600), 10), 65) >>
                      ELSE <<>>)
          [] st.currentTool = "polygon" ->
                Shape(Regular(PolygonSidesOf(st), radius),
                      IF st.hollow
                      THEN << Regular(PolygonSidesOf(st), Max(Times(radius, 500), 10)) >>
                      ELSE <<>>)
          [] OTHER -> NoShape

\* A child of a sketched group: a LineLoop through outline points or a Mesh
\* over a geometry, turned by -PI/2 about x so that it lies on the plane.
LineLoop(points, position) ==
    [type |-> "LineLoop", geometry |-> [type |-> "BufferGeometry", points |-> points],
     rotationX |-> "-PI/2", position |-> position]
ShapeMesh(shape, position) ==
    [type |-> "Mesh", geometry |-> [type |-> "ShapeGeometry", shapes |-> shape],
     rotationX |-> "-PI/2", position |-> position]
ExtrudeMesh(shape, depth, position) ==
    [type |-> "Mesh",
     geometry |-> [type |-> "ExtrudeGeometry", shapes |-> shape, depth |-> depth],
     rotationX |-> "-PI/2", position |-> position]

\* new THREE.Group(): no children, empty userData, at the origin.
EmptyGroup == [children |-> <<>>, userData |-> <<>>, position |-> <<0, 0, 0>>]

\* A placement that takes the start anchor for every tool.
PlacementAtStart(st, start, end, y) == <<start[1], y, start[2]>>

\* Where createShape puts the child: the midpoint of the anchors for the
\* rectangle, the start anchor for the other tools, at height y.
Placement(st, start, end, y) ==
    IF st.currentTool = "rectangle"
    THEN <<(start[1] + end[1]) \div 2, y, (start[2] + end[2]) \div 2>>
    ELSE <<start[1], y, start[2]>>

createShape(st, start, end) ==
    LET shape == buildShape(st, start, end)
        extruded == st.extrudeEnabled /\ st.extrudeDepth # 0
    IN  IF shape = NoShape
        THEN EmptyGroup
        ELSE IF st.hollow
        THEN [EmptyGroup EXCEPT
                !.children = << LineLoop(buildOutlinePoints(st, start, end),
                                         Placement(st, start, end, 10)) >>,
                !.userData = [shape2D |-> shape, metadata |-> [tool |-> st.currentTool],
                              extruded |-> extruded, extrudeDepth |-> st.extrudeDepth]]
        ELSE IF st.extrudeEnabled /\ st.extrudeDepth > 0
        THEN [EmptyGroup EXCEPT
                !.children = << ExtrudeMesh(shape, st.extrudeDepth,
                                            Placement(st, start, end, st.extrudeDepth \div 2)) >>,
                !.userData = [metadata |-> [tool |-> st.currentTool],
                              extruded |-> extruded, extrudeDepth |-> st.extrudeDepth]]
        ELSE [EmptyGroup EXCEPT
                !.children = << ShapeMesh(shape, Placement(st, start, end, 10)) >>,
                !.userData = [shape2D |-> shape, metadata |-> [tool |-> st.currentTool],
                              extruded |-> extruded, extrudeDepth |-> st.extrudeDepth]]

\* extrudeExisting(group, depth) on a group; depthArg is <<depth>>, or <<>>
\* when no depth is passed.  The result is the mesh it returns, null on
\* failure, and the group as it leaves it.
extrudeExisting(st, group, depthArg) ==
    LET userData == group.userData
        meshes == SelectSeq(group.children, LAMBDA c : c.type = "Mesh")
        shape ==
            IF "shape2D" \in DOMAIN userData
            THEN userData.shape2D
            ELSE IF meshes # <<>> /\ "shapes" \in DOMAIN meshes[1].geometry
                 THEN meshes[1].geometry.shapes
                 ELSE NoShape
        d == IF depthArg # <<>>
             THEN Max(0, depthArg[1])
             ELSE Max(0, IF "extrudeDepth" \in DOMAIN userData
                         THEN userData.extrudeDepth
                         ELSE st.extrudeDepth)
        position ==
            IF "lastChildPosition" \in DOMAIN userData
            THEN <<userData.lastChildPosition[1], d \div 2, userData.lastChildPosition[3]>>
            ELSE <<group.position[1], d \div 2, group.position[3]>>
        mesh == ExtrudeMesh(shape, d, position)
    IN  IF shape = NoShape
        THEN [mesh |-> NoObject, group |-> group]
        ELSE [mesh |-> mesh,
              group |->
                [group EXCEPT
                    !.children = <<mesh>>,
                    !.userData =
                        [f \in DOMAIN userData \cup {"extruded", "extrudeDepth", "shape2D"} |->
                            CASE f = "extruded" -> TRUE
                              [] f = "extrudeDepth" -> d
                              [] f = "shape2D" -> shape
                              [] OTHER -> userData[f]]]]

\* point is getIntersectionPoint(event, canvas): a point of the plane or NoPoint.
handleMouseDown(st, point) ==
    IF st.currentTool = NoTool
    THEN st
    ELSE IF point # NoPoint
         THEN [st EXCEPT !.isDrawing = TRUE, !.startPoint = point]
         ELSE st

\* A preview that is put in the scene without removing the one before it.
updatePreviewKeepsOld(st, start, end) ==
    [st EXCEPT !.previewMesh = [start |-> start, end |-> end],
               !.previewsInScene = st.previewsInScene + 1]

\* clearPreview(), then a mesh built from start and end is put in the scene.
updatePreview(st, start, end) ==
    LET cleared == clearPreview(st) IN
    [cleared EXCEPT !.previewMesh = [start |-> start, end |-> end],
                    !.previewsInScene = cleared.previewsInScene + 1]

\* A mouse-move that draws the preview whether or not a drawing is in progress.
handleMouseMoveAlways(st, point) ==
    IF st.currentTool = NoTool
    THEN st
    ELSE IF point # NoPoint
         THEN updatePreview(st, st.startPoint, point)
         ELSE st

handleMouseMove(st, point) ==
    IF ~st.isDrawing \/ st.startPoint = NoPoint \/ st.currentTool = NoTool
    THEN st
    ELSE IF point # NoPoint
         THEN updatePreview(st, st.startPoint, point)
         ELSE st

\* handleMouseUp returns a group (createShape always builds one) exactly when
\* a session is in progress and the pointer is on the plane.
ReturnsShape(st, point) ==
    /\ ~(~st.isDrawing \/ st.startPoint = NoPoint \/ st.currentTool = NoTool)
    /\ point # NoPoint

\* A mouse-up that keeps the session open when it commits a shape.
handleMouseUpKeepsDrawing(st, point) ==
    IF ~st.isDrawing \/ st.startPoint = NoPoint \/ st.currentTool = NoTool
    THEN st
    ELSE IF point # NoPoint
         THEN clearPreview(st)
         ELSE [clearPreview(st) EXCEPT !.isDrawing = FALSE, !.startPoint = NoPoint]

\* The controller's state after handleMouseUp.
handleMouseUp(st, point) ==
    IF ~st.isDrawing \/ st.startPoint = NoPoint \/ st.currentTool = NoTool
    THEN st
    ELSE [clearPreview(st) EXCEPT !.isDrawing = FALSE, !.startPoint = NoPoint]

\* ------------------------------------------------------------ UI handlers
NoRun == [objs |-> <<>>, undos |-> 0]

\* Toolbar.handleCreateBox .. handleCreatePlane: a new primitive is added to
\* the scene and to the store.
CreateShape ==
    /\ created < MaxObjs
    /\ Len(past) < MaxHist
    /\ LET object == created + 1 IN
        /\ created' = object
        /\ scene' = scene \cup {object}
        /\ addObject(object)
    /\ clearRun' = NoRun
    /\ UNCHANGED <<uiVars, orbitEnabled, selected, xform, widgetVars, materialVars>>

\* store.removeObject(object): a store action no UI handler calls.
RemoveObject(object) ==
    /\ object \in 1..created
    /\ Len(past) < MaxHist
    /\ removeObject(object)
    /\ clearRun' = NoRun
    /\ UNCHANGED <<uiVars, orbitEnabled, selected, scene, xform, created, widgetVars, materialVars>>

\* Toolbar.handleUndo
Undo ==
    /\ SetEditState(undo(EditState))
    /\ clearRun' =
        IF clearRun.undos < Len(clearRun.objs)
        THEN [clearRun EXCEPT !.undos = @ + 1]
        ELSE NoRun
    /\ UNCHANGED <<uiVars, orbitEnabled, selected, created, widgetVars, materialVars>>

\* Toolbar.handleRedo
Redo ==
    /\ SetEditState(redo(EditState))
    /\ clearRun' = NoRun
    /\ UNCHANGED <<uiVars, orbitEnabled, selected, created, widgetVars, materialVars>>

\* Toolbar.handleClearAll
ClearAll ==
    /\ Len(past) + Len(objects) <= MaxHist
    /\ clearAll
    /\ clearRun' = [objs |-> objects, undos |-> 0]
    /\ UNCHANGED <<uiVars, orbitEnabled, selected, xform, created, widgetVars, materialVars>>

\* Toolbar.handleDeleteSelected, and CanvasView's effect on the new selection.
RemoveSelected ==
    /\ selected = None \/ Len(past) < MaxHist
    /\ removeSelected
    /\ IF selected # None
       THEN attachToObject(None)
       ELSE UNCHANGED <<attachedObject, axis>>
    /\ clearRun' = NoRun
    /\ UNCHANGED <<uiVars, orbitEnabled, xform, created, startTransform, dragging, drags, materialVars>>

\* A click on an object of the scene (SelectionManager.handleClick) or on a
\* row of the object list (PropertiesPanel.handleSelect), and CanvasView's
\* effect on the new selection.
SelectObject(object) ==
    /\ object \in Range(objects) \cup scene
    /\ selectObject(object)
    /\ attachToObject(object)
    /\ clearRun' = NoRun
    /\ UNCHANGED <<uiVars, orbitEnabled, objects, past, future, scene, xform, created, startTransform,
                   dragging, drags>>

\* A click on empty space (SelectionManager.handleClick).
ClearSelection ==
    /\ clearSelection
    /\ attachToObject(None)
    /\ clearRun' = NoRun
    /\ UNCHANGED <<uiVars, orbitEnabled, objects, past, future, scene, xform, created, startTransform,
                   dragging, drags>>

\* The widget starts a drag on its object: dragging-changed(true).
DragStart ==
    /\ ~dragging
    /\ attachedObject # None
    /\ drags < MaxDrags
    /\ drags' = drags + 1
    /\ dragging' = TRUE
    /\ axis' = TRUE
    /\ DragStarted
    /\ clearRun' = NoRun
    /\ UNCHANGED <<uiVars, storeVars, scene, xform, created, attachedObject, materialVars>>

\* The widget moves, turns or scales its object while the pointer moves.
DragMove(t) ==
    /\ dragging
    /\ axis
    /\ attachedObject # None
    /\ xform' = [xform EXCEPT ![attachedObject] = t]
    /\ clearRun' = NoRun
    /\ UNCHANGED <<uiVars, orbitEnabled, storeVars, scene, created, widgetVars, materialVars>>

\* The pointer is released: dragging-changed(false).
DragEnd ==
    /\ dragging
    /\ Len(past) < MaxHist
    /\ dragging' = FALSE
    /\ axis' = FALSE
    /\ DragEnded
    /\ clearRun' = NoRun
    /\ UNCHANGED <<uiVars, objects, selected, scene, xform, created, attachedObject, drags, materialVars>>

\* Toolbar.handleToggleSketchMode(tool)
ToggleSketchMode(tool) ==
    /\ IF mode = "SKETCH" /\ selectedSketchTool = tool
       THEN /\ mode' = "3D"
            /\ SetSketchState(disableSketchMode(SketchState))
            /\ selectedSketchTool' = NoTool
       ELSE /\ mode' = "SKETCH"
            /\ SetSketchState(
                enableSketchMode(
                    setHollow(setGridSize(setSnapToGrid(SketchState,
                                                        sketchOptions.snapToGrid),
                                          sketchOptions.gridSize),
                              sketchOptions.hollow),
                    tool, sketchOptions.hollow,
                    IF tool = "polygon" THEN sketchOptions.polygonSides ELSE None))
            /\ selectedSketchTool' = tool
    /\ clearRun' = NoRun
    /\ UNCHANGED <<sketchOptions, built, viewVars, ioVars, storeVars, scene, xform, created, widgetVars, materialVars>>

\* Toolbar's "Toggle Hollow" option: the toolbar's flag flips and the sketch
\* controller is told.
ToggleHollow ==
    /\ sketchOptions' = [sketchOptions EXCEPT !.hollow = ~sketchOptions.hollow]
    /\ SetSketchState(setHollow(SketchState, ~sketchOptions.hollow))
    /\ clearRun' = NoRun
    /\ UNCHANGED <<built, mode, selectedSketchTool, viewVars, ioVars, storeVars, scene,
                   xform, created, widgetVars, materialVars>>

\* CanvasView.handleMouseDown
SketchMouseDown(point) ==
    /\ mode = "SKETCH"
    /\ SetSketchState(handleMouseDown(SketchState, point))
    /\ clearRun' = NoRun
    /\ UNCHANGED <<sketchOptions, built, viewVars, ioVars, mode, selectedSketchTool, storeVars, scene, xform, created,
                   widgetVars, materialVars>>

\* CanvasView.handleMouseMove
SketchMouseMove(point) ==
    /\ mode = "SKETCH"
    /\ SetSketchState(handleMouseMove(SketchState, point))
    /\ clearRun' = NoRun
    /\ UNCHANGED <<sketchOptions, built, viewVars, ioVars, mode, selectedSketchTool, storeVars, scene, xform, created,
                   widgetVars, materialVars>>

\* CanvasView.handleMouseUp: the shape handed back by the sketch controller
\* is added to the scene and to the store.
SketchMouseUp(point) ==
    /\ mode = "SKETCH"
    /\ ReturnsShape(SketchState, point) => created < MaxObjs /\ Len(past) < MaxHist
    /\ SetSketchState(handleMouseUp(SketchState, point))
    /\ IF ReturnsShape(SketchState, point)
       THEN LET shape == created + 1 IN
            /\ created' = shape
            /\ scene' = scene \cup {shape}
            /\ addObject(shape)
       ELSE UNCHANGED <<created, scene, objects, past, future>>
    /\ clearRun' = NoRun
    /\ UNCHANGED <<sketchOptions, built, viewVars, ioVars, mode, selectedSketchTool, selected, xform,
                   widgetVars, materialVars>>

\* Toolbar.applyViewMode(mode)
SetViewMode(newMode) ==
    /\ setViewMode(newMode)
    /\ preWire' =
        IF newMode = "wireframe" /\ viewMode # "wireframe"
        THEN [o \in Objs |-> IF o \in scene THEN material[o] ELSE NoMaterial]
        ELSE preWire
    /\ clearRun' = NoRun
    /\ UNCHANGED <<mode, selectedSketchTool, currentTool, sketchPlaneVisible, isDrawing,
                   startPoint, previewMesh, previewsInScene, hollow, polygonSides,
                   extrudeEnabled, extrudeDepth, snapToGrid, gridSize, gridInScene,
                   sketchOptions,
                   built, ioVars, orbitEnabled, storeVars, scene, xform, created,
                   widgetVars, originalMaterials, visible, transformMode>>

\* What the visibility and transform-mode commands leave alone.
PanelFrame ==
    /\ clearRun' = NoRun
    /\ UNCHANGED <<sketchVars, ioVars, viewMode, wireframeOriginals, preWire, edgesVisible,
                   helpers, orbitEnabled, scene, xform, created, widgetVars, materialVars>>

\* Toolbar.handleToggleVisibility: the selected object is shown or hidden.
ToggleVisibility ==
    /\ IF selected = None
       THEN UNCHANGED <<visible, objects, selected, past, future>>
       ELSE setObjectVisibility(selected, ~visible[selected])
    /\ UNCHANGED transformMode
    /\ PanelFrame

\* PropertiesPanel.handleToggleVisibility on a row of the object list.
ToggleObjectVisibility(object) ==
    /\ object \in Range(objects)
    /\ setObjectVisibility(object, ~visible[object])
    /\ UNCHANGED transformMode
    /\ PanelFrame

\* store.toggleSelectedVisibility(): a store action no UI handler calls.
ToggleSelectedVisibility ==
    /\ toggleSelectedVisibility
    /\ UNCHANGED transformMode
    /\ PanelFrame

\* Toolbar.handleTransformMode and the keys of App: the store's mode is set
\* and CanvasView hands it to the transform widget.
SetTransformMode(newMode) ==
    /\ setTransformMode(newMode)
    /\ UNCHANGED visible
    /\ PanelFrame

\* Toolbar.handleExport: the scene's children are exported to a text.
ExportScene ==
    /\ jsonData' = exportScene(children)
    /\ UNCHANGED <<storeVars, scene, xform, created, widgetVars, materialVars, clearRun,
                   orbitEnabled, sketchVars, viewVars, children, importedObjects,
                   alerts>>

\* SceneImporter.importScene on the exported text.
ImportScene ==
    /\ importedObjects' = importScene(jsonData)
    /\ UNCHANGED <<storeVars, scene, xform, created, widgetVars, materialVars, clearRun,
                   orbitEnabled, sketchVars, viewVars, children, jsonData, alerts>>

\* addObject for each imported object, in file order.
RECURSIVE PushAdds(_, _)
PushAdds(p, objs) ==
    IF objs = <<>>
    THEN p
    ELSE PushAdds(Append(p, AddEntry(NextId(p), Head(objs))), Tail(objs))

\* The quaternion three.js keeps in step with the Euler angles of a group;
\* the files of the model hold unrotated objects.
QuaternionOf(rotation) ==
    CASE rotation = <<0, 0, 0>> -> <<0, 0, 0, 1>>

\* The TransformData of a group.
TransformOf(group) ==
    [position |-> group.position, quaternion |-> QuaternionOf(group.rotation),
     scale |-> group.scale]

\* A file whose text loadFromFile cannot deliver: the read fails or the
\* file is empty.
Unreadable == [readable |-> FALSE, text |-> Malformed]
ReadableFile(text) == [readable |-> TRUE, text |-> text]

\* handleImport that adds the imported objects to the current ones.
ImportKeepsObjects(file) ==
    IF ~file.readable
    THEN /\ alerts < MaxAlerts
         /\ alerts' = alerts + 1
         /\ UNCHANGED <<storeVars, scene, xform, created, widgetVars, materialVars,
                        clearRun, orbitEnabled, sketchVars, viewVars, children,
                        jsonData, importedObjects>>
    ELSE LET objs == importScene(file.text)
             imported == [i \in 1..Len(objs) |-> created + i]
         IN  /\ created + Len(objs) <= MaxObjs
             /\ Len(past) + Len(objs) <= MaxHist
             /\ jsonData' = file.text
             /\ importedObjects' = objs
             /\ scene' = scene \cup Range(imported)
             /\ objects' = objects \o imported
             /\ past' = PushAdds(past, imported)
             /\ future' = IF objs = <<>> THEN future ELSE <<>>
             /\ xform' = [o \in Objs |->
                            IF o \in Range(imported)
                            THEN TransformOf(objs[o - created])
                            ELSE xform[o]]
             /\ created' = created + Len(objs)
             /\ clearRun' = NoRun
             /\ UNCHANGED <<selected, widgetVars, materialVars, orbitEnabled,
                            sketchVars, viewVars, children, alerts>>

\* Toolbar.handleImport.  loadFromFile rejects for an unreadable file, and
\* the catch shows the alert.  For a readable one the text is imported, the
\* current objects leave the scene, clearObjects(), then addShape and
\* addObject for each imported object, in order.
Import(file) ==
    IF ~file.readable
    THEN /\ alerts < MaxAlerts
         /\ alerts' = alerts + 1
         /\ UNCHANGED <<storeVars, scene, xform, created, widgetVars, materialVars,
                        clearRun, orbitEnabled, sketchVars, viewVars, children,
                        jsonData, importedObjects>>
    ELSE LET objs == importScene(file.text)
             imported == [i \in 1..Len(objs) |-> created + i]
         IN  /\ created + Len(objs) <= MaxObjs
             /\ Len(past) + Len(objs) <= MaxHist
             /\ jsonData' = file.text
             /\ importedObjects' = objs
             /\ scene' = (scene \ Range(objects)) \cup Range(imported)
             /\ objects' = imported
             /\ past' = PushAdds(past, imported)
             /\ future' = IF objs = <<>> THEN future ELSE <<>>
             /\ xform' = [o \in Objs |->
                            IF o \in Range(imported)
                            THEN TransformOf(objs[o - created])
                            ELSE xform[o]]
             /\ created' = created + Len(objs)
             /\ clearRun' = NoRun
             /\ UNCHANGED <<selected, widgetVars, materialVars, orbitEnabled,
                            sketchVars, viewVars, children, alerts>>

\* A group placed in the scene.
Placed(group, position, rotation, scale) ==
    [group EXCEPT !.position = position, !.rotation = rotation, !.scale = scale]

\* A shape of a kind the importer has no case for.
createPyramid(size) == NewGroup("pyramid", [size |-> size], <<size>>, 5, 8)

\* The records of the files offered to import: a box as created, a box
\* moved, a sphere scaled, an extruded shape and a pyramid.
FileRecords ==
    {Serialized(createBox(1, 1, 1)),
     Serialized(Placed(createBox(2, 1, 3), Moved.position, <<0, 0, 0>>, Moved.scale)),
     Serialized(Placed(createSphere(1, 3, 2), Scaled.position, <<0, 0, 0>>, Scaled.scale)),
     Serialized(createExtrudedShape(1, 1)),
     Serialized(createPyramid(1))}

\* The data of those files: up to MaxObjs records.
Docs ==
    {[version |-> "1.0.0", objects |-> recs] :
        recs \in UNION {[1..n -> FileRecords] : n \in 0..MaxObjs}}

\* The files offered to import: the text of each of those data, a text that
\* does not parse, and a file that cannot be read.
Files ==
    {ReadableFile(JSONstringify(doc)) : doc \in Docs}
    \cup {ReadableFile(Malformed), Unreadable}

\* The primitives of the toolbar, with a few parameter values each.
Primitives ==
    {createBox(1, 1, 1), createBox(2, 1, 3), createSphere(1, 3, 2),
     createCylinder(1, 2, 3, 3), createCone(1, 2, 3), createTorus(2, 1, 3, 3),
     createPlane(1, 2)}

\* A sketched group: its metadata names the tool and has no type.
SketchedGroup(tool) ==
    [metadata |-> [tool |-> tool], geometry |-> <<tool>>,
     position |-> <<0, 0, 0>>, rotation |-> <<0, 0, 0>>, scale |-> <<1, 1, 1>>]

\* A child of the scene without metadata: a light, a helper, an overlay.
Helper ==
    [metadata |-> NoMetadata, geometry |-> <<>>,
     position |-> <<0, 0, 0>>, rotation |-> <<0, 0, 0>>, scale |-> <<1, 1, 1>>]

\* The children a scene is drawn from: the primitives as created, moved and
\* turned, or scaled; an extruded shape, a sketched shape and a helper.
SceneChildren ==
    {Placed(g, <<0, 0, 0>>, <<0, 0, 0>>, <<1, 1, 1>>) : g \in Primitives}
    \cup {Placed(g, <<0 - MaxCoord, 0, 2>>, <<0, 0 - 1, MaxCoord>>, <<1, 1, 1>>) : g \in Primitives}
    \cup {Placed(g, <<MaxCoord, 0, 0>>, <<0, 0, 0>>, <<2, 1, 3>>) : g \in Primitives}
    \cup {createExtrudedShape(1, 1), SketchedGroup("rectangle"), Helper}

Scenes == UNION {[1..n -> SceneChildren] : n \in 0..MaxFile}

\* ---------------------------------------------------------- specification
InitEditor ==
    /\ objects = <<>>
    /\ selected = None
    /\ past = <<>>
    /\ future = <<>>
    /\ scene = {}
    /\ xform = [o \in Objs |-> Identity]
    /\ created = 0
    /\ attachedObject = None
    /\ startTransform = NoStart
    /\ dragging = FALSE
    /\ drags = 0
    /\ axis = FALSE
    /\ material = [o \in Objs |-> Standard]
    /\ originalMaterials = [o \in Objs |-> NoMaterial]
    /\ clearRun = NoRun
    /\ orbitEnabled = TRUE
    /\ mode = "3D"
    /\ selectedSketchTool = NoTool
    /\ currentTool = NoTool
    /\ sketchPlaneVisible = FALSE
    /\ gridVisible = FALSE
    /\ isDrawing = FALSE
    /\ startPoint = NoPoint
    /\ previewMesh = NoPreview
    /\ previewsInScene = 0
    /\ viewMode = "default"
    /\ wireframeOriginals = [o \in Objs |-> NoMaterial]
    /\ preWire = [o \in Objs |-> NoMaterial]
    /\ edgesVisible = [o \in Objs |-> TRUE]
    /\ helpers = [grid |-> TRUE, axes |-> TRUE]
    /\ visible = [o \in Objs |-> TRUE]
    /\ transformMode = "translate"
    /\ hollow = FALSE
    /\ polygonSides = 5 * Unit
    /\ extrudeEnabled = FALSE
    /\ extrudeDepth = DefaultExtrudeDepth
    /\ snapToGrid = TRUE
    /\ gridSize = DefaultGridSize
    /\ gridInScene = FALSE
    /\ sketchOptions = [hollow |-> FALSE, snapToGrid |-> TRUE,
                        gridSize |-> DefaultGridSize, polygonSides |-> 5 * Unit]
    /\ built = NoResult
    /\ jsonData = Malformed
    /\ importedObjects = <<>>
    /\ alerts = 0

\* The application after start-up: the editor with an empty scene.
Init ==
    /\ InitEditor
    /\ children = <<>>

\* The editing commands of the UI: creation, selection, deletion, undo and
\* redo, and the transform widget.
Next ==
    \/ CreateShape
    \/ Undo
    \/ Redo
    \/ ClearAll
    \/ RemoveSelected
    \/ \E object \in Objs : SelectObject(object)
    \/ ClearSelection
    \/ DragStart
    \/ \E t \in Xforms : DragMove(t)
    \/ DragEnd

Spec == Init /\ [][Next]_vars

\* The editing commands and the store action removeObject, which no UI
\* handler calls.
NextApi ==
    \/ Next
    \/ \E object \in Objs : RemoveObject(object)

SpecApi == Init /\ [][NextApi]_vars

\* Creation from the toolbar: the group a factory returns is added to the
\* scene (sceneManager.addShape) and to the store (addObject).
Create(group) ==
    /\ created < MaxObjs
    /\ Len(past) < MaxHist
    /\ Len(children) < MaxFile
    /\ LET object == created + 1 IN
        /\ created' = object
        /\ scene' = scene \cup {object}
        /\ addObject(object)
    /\ children' = Append(children, group)
    /\ clearRun' = NoRun
    /\ UNCHANGED <<sketchVars, viewVars, jsonData, importedObjects, alerts, orbitEnabled,
                   selected, xform, widgetVars, materialVars>>

\* Toolbar.handleCreateBox and handleCreatePlane, with their arguments; the
\* sphere and torus handlers with segment counts from SegmentCounts.
SegmentCounts == {3, 16, 32, 64}
HandleCreateBox == Create(createBox(1, 1, 1))
HandleCreatePlane == Create(createPlane(2, 2))
HandleCreateSphere(widthSegments, heightSegments) ==
    Create(createSphere(1, widthSegments, heightSegments))
HandleCreateTorus(radialSegments, tubularSegments) ==
    Create(createTorus(2, 1, radialSegments, tubularSegments))

NextFactory ==
    \/ HandleCreateBox
    \/ HandleCreatePlane
    \/ \E widthSegments \in SegmentCounts, heightSegments \in SegmentCounts :
            HandleCreateSphere(widthSegments, heightSegments)
    \/ \E radialSegments \in SegmentCounts, tubularSegments \in SegmentCounts :
            HandleCreateTorus(radialSegments, tubularSegments)

SpecFactory == Init /\ [][NextFactory]_vars

\* The sketch controller driven through its own interface, with pointer
\* events that hit the plane anywhere: built is what the last call returned.
SketchTools == {"rectangle", "circle", "triangle", "ellipse", "polygon"}
Hits == {<<0, 0>>, <<2000, 1000>>, <<260, 240>>, <<1500, 2000>>}
SidesArgs == {None, 2 * Unit, 3500, 6 * Unit}
Depths == {0, 400}
DepthArgs == {<<>>, <<300>>}

SketchCallFrame ==
    /\ clearRun' = NoRun
    /\ UNCHANGED <<sketchOptions, viewVars, ioVars, mode, selectedSketchTool, storeVars,
                   scene, xform, created, widgetVars, materialVars>>

EnableSketchMode(tool, hollowArg, sidesArg) ==
    /\ SetSketchState(enableSketchMode(SketchState, tool, hollowArg, sidesArg))
    /\ built' = NoResult
    /\ SketchCallFrame

SetExtrude(enabled) ==
    /\ SetSketchState(setExtrude(SketchState, enabled))
    /\ built' = NoResult
    /\ SketchCallFrame

SetExtrudeDepth(depth) ==
    /\ SetSketchState(setExtrudeDepth(SketchState, depth))
    /\ built' = NoResult
    /\ SketchCallFrame

SetSnapToGrid(enabled) ==
    /\ SetSketchState(setSnapToGrid(SketchState, enabled))
    /\ built' = NoResult
    /\ SketchCallFrame

HandleMouseDown(hit) ==
    /\ SetSketchState(handleMouseDown(SketchState, getIntersectionPoint(SketchState, hit)))
    /\ built' = NoResult
    /\ SketchCallFrame

\* handleMouseUp returns createShape(startPoint, endPoint), or null.
HandleMouseUp(hit) ==
    LET endPoint == getIntersectionPoint(SketchState, hit) IN
    /\ SetSketchState(handleMouseUp(SketchState, endPoint))
    /\ built' = IF ReturnsShape(SketchState, endPoint)
                THEN [op |-> "createShape",
                      group |-> createShape(SketchState, startPoint, endPoint)]
                ELSE NoResult
    /\ SketchCallFrame

\* extrudeExisting on the group a sketch or an earlier extrusion returned.
ExtrudeExisting(depthArg) ==
    /\ built # NoResult
    /\ LET result == extrudeExisting(SketchState, built.group, depthArg) IN
       built' = [op |-> "extrudeExisting", mesh |-> result.mesh, group |-> result.group]
    /\ UNCHANGED <<currentTool, sketchPlaneVisible, gridVisible, isDrawing, startPoint,
                   previewMesh, previewsInScene, hollow, polygonSides, extrudeEnabled,
                   extrudeDepth, snapToGrid, gridSize, gridInScene, orbitEnabled>>
    /\ SketchCallFrame

NextShape ==
    \/ \E tool \in SketchTools, hollowArg \in BOOLEAN, sidesArg \in SidesArgs :
            EnableSketchMode(tool, hollowArg, sidesArg)
    \/ \E enabled \in BOOLEAN : SetExtrude(enabled)
    \/ \E depth \in Depths : SetExtrudeDepth(depth)
    \/ \E enabled \in BOOLEAN : SetSnapToGrid(enabled)
    \/ \E hit \in Hits \cup {NoPoint} : HandleMouseDown(hit)
    \/ \E hit \in Hits \cup {NoPoint} : HandleMouseUp(hit)
    \/ \E depthArg \in DepthArgs : ExtrudeExisting(depthArg)

SpecShape == Init /\ [][NextShape]_vars

\* Sketching: the sketch tools of the toolbar and the pointer on the canvas,
\* with selection and the transform widget on the sketched objects.
NextSketch ==
    \/ \E tool \in Tools : ToggleSketchMode(tool)
    \/ ToggleHollow
    \/ \E point \in Points \cup {NoPoint} : SketchMouseDown(point)
    \/ \E point \in Points \cup {NoPoint} : SketchMouseMove(point)
    \/ \E point \in Points \cup {NoPoint} : SketchMouseUp(point)
    \/ \E object \in Objs : SelectObject(object)
    \/ ClearSelection
    \/ DragStart
    \/ \E t \in {Identity, Moved} : DragMove(t)
    \/ DragEnd
    \/ Undo
    \/ Redo

SpecSketch == Init /\ [][NextSketch]_vars

\* View modes: the view buttons of the toolbar, with creation, selection,
\* undo and redo, and the sketch tools, whose grid is a helper of the scene.
NextView ==
    \/ \E newMode \in ViewModes : SetViewMode(newMode)
    \/ \E tool \in Tools : ToggleSketchMode(tool)
    \/ CreateShape
    \/ \E object \in Objs : SelectObject(object)
    \/ ClearSelection
    \/ Undo
    \/ Redo

SpecView == Init /\ [][NextView]_vars

\* The commands that are not edits (selection, visibility, transform mode,
\* view mode, sketch mode), with creation and undo filling the two stacks.
NextPanel ==
    \/ CreateShape
    \/ Undo
    \/ \E object \in Objs : SelectObject(object)
    \/ ClearSelection
    \/ ToggleVisibility
    \/ \E object \in Objs : ToggleObjectVisibility(object)
    \/ ToggleSelectedVisibility
    \/ \E newMode \in TransformModes : SetTransformMode(newMode)
    \/ \E newMode \in ViewModes : SetViewMode(newMode)
    \/ ToggleSketchMode("rectangle")

SpecPanel == Init /\ [][NextPanel]_vars

\* Export and import: a scene of up to MaxFile children is exported to a
\* text and the text is imported.
InitRoundTrip ==
    /\ InitEditor
    /\ children \in Scenes

NextRoundTrip ==
    \/ ExportScene
    \/ ImportScene

SpecRoundTrip == InitRoundTrip /\ [][NextRoundTrip]_vars

\* Import: files are imported into the editor, with creation, selection,
\* undo and redo.
NextImport ==
    \/ \E file \in Files : Import(file)
    \/ CreateShape
    \/ \E object \in Objs : SelectObject(object)
    \/ Undo
    \/ Redo

SpecImport == Init /\ [][NextImport]_vars

\* ------------------------------------------------------------------ claims
\* The operation of an entry, its identity aside.
IsAdd(e, object) == e.type = "add" /\ e.object = object
IsRemove(e, object) == e.type = "remove" /\ e.object = object
IsTransform(e, uuid, before, after) ==
    e.type = "transform" /\ e.uuid = uuid /\ e.before = before /\ e.after = after

\* p2 is p with n entries appended.
Extends(p, p2, n) == Len(p2) = Len(p) + n /\ SubSeq(p2, 1, Len(p)) = p

\* C1: in every state with a non-empty past, undo() immediately followed by
\* redo() restores the pre-undo state: the same set of objects in the object
\* list and the same position, orientation and scale for every object.
C1_UndoRedoInverse ==
    Len(past) > 0 =>
        LET after == redo(undo(EditState)) IN
            /\ Range(after.objects) = Range(objects)
            /\ after.xform = xform

\* C2: every completed new edit (addObject, removeObject, recordTransform with
\* before # after, removeSelected with a selection, clearAll on a non-empty
\* scene) appends its entry or entries to the end of past and leaves future
\* empty, so that a redo() issued right after it changes nothing.
C2_EditsAppendAndClearFuture ==
    [][ /\ CreateShape =>
            /\ Extends(past, past', 1) /\ IsAdd(Last(past'), created')
            /\ future' = <<>>
            /\ redo(EditState') = EditState'
        /\ \A object \in Objs : RemoveObject(object) =>
            /\ Extends(past, past', 1) /\ IsRemove(Last(past'), object)
            /\ future' = <<>>
            /\ redo(EditState') = EditState'
        /\ ( /\ DragEnd
             /\ attachedObject # None
             /\ startTransform # NoStart
             /\ startTransform.uuid = attachedObject
             /\ Snapshot(startTransform) # xform[attachedObject] ) =>
            /\ Extends(past, past', 1)
            /\ IsTransform(Last(past'), attachedObject, Snapshot(startTransform),
                           xform[attachedObject])
            /\ future' = <<>>
            /\ redo(EditState') = EditState'
        /\ (RemoveSelected /\ selected # None) =>
            /\ Extends(past, past', 1) /\ IsRemove(Last(past'), selected)
            /\ future' = <<>>
            /\ redo(EditState') = EditState'
        /\ (ClearAll /\ Len(objects) > 0) =>
            /\ Extends(past, past', Len(objects))
            /\ \A i \in 1..Len(objects) : IsRemove(past'[Len(past) + i], objects[i])
            /\ future' = <<>>
            /\ redo(EditState') = EditState'
      ]_vars

\* An edit made after an undo: the second object was created while the Add
\* of the first one was on future, which the edit emptied.
C2_Witness ==
    /\ created = 2
    /\ Len(past) = 1 /\ IsAdd(past[1], 2)
    /\ future = <<>>

\* C3: at every reachable state past and future are disjoint: no history
\* entry (an object, told apart by its identity) is held by both stacks.
C3_PastFutureDisjoint ==
    \A i \in 1..Len(past) : \A j \in 1..Len(future) : past[i].id # future[j].id

\* Both stacks hold an entry, and the two record the same operation on the
\* same object.
C3_Witness ==
    \E i \in 1..Len(past) : \E j \in 1..Len(future) :
        /\ past[i].type = "remove" /\ future[j].type = "remove"
        /\ past[i].object = future[j].object

\* C4: undo() with an empty past and redo() with an empty future are no-ops:
\* the object list, every object's transform, the selection, past, future
\* and the scene are unchanged.
C4_EmptyStackNoOp ==
    [][ /\ (Undo /\ Len(past) = 0) =>
            UNCHANGED <<objects, xform, selected, past, future, scene, materialVars>>
        /\ (Redo /\ Len(future) = 0) =>
            UNCHANGED <<objects, xform, selected, past, future, scene, materialVars>>
      ]_vars

\* Everything has been undone: past is empty and future is not.
C4_Witness ==
    /\ Len(past) = 0
    /\ Len(future) > 0
    /\ created > 0

\* C5: undo() pops the most recent entry of past, applies its inverse (Add:
\* the object leaves the object list and the scene; Remove: the object is put
\* back; Transform: the object's position, orientation and scale are set to
\* `before`) and pushes that entry on future; redo() pops the top of future,
\* re-applies the operation (Transform: set to `after`) and pushes the entry
\* back on past.
C5_UndoRedoApplyInverse ==
    [][ /\ (Undo /\ Len(past) > 0) =>
            LET op == Last(past) IN
            /\ past' = Front(past)
            /\ future' = Append(future, op)
            /\ op.type = "add" =>
                op.object \notin Range(objects') /\ op.object \notin scene'
            /\ op.type = "remove" =>
                op.object \in Range(objects') /\ op.object \in scene'
            /\ op.type = "transform" => xform'[op.uuid] = op.before
        /\ (Redo /\ Len(future) > 0) =>
            LET op == Last(future) IN
            /\ future' = Front(future)
            /\ past' = Append(past, op)
            /\ op.type = "add" =>
                op.object \in Range(objects') /\ op.object \in scene'
            /\ op.type = "remove" =>
                op.object \notin Range(objects') /\ op.object \notin scene'
            /\ op.type = "transform" => xform'[op.uuid] = op.after
      ]_vars

\* C6: a completed drag session (drag start followed by drag end on the same
\* attached object) emits exactly one Transform entry when the object's
\* position, orientation or scale at drag end differs from the one captured at
\* drag start, with `before` the transform at drag start and `after` the
\* transform at drag end, and clears future; it emits nothing otherwise.
C6_OneEntryPerDrag ==
    [][ /\ (DragStart /\ attachedObject # None) =>
            /\ startTransform'.uuid = attachedObject
            /\ Snapshot(startTransform') = xform[attachedObject]
        /\ ( /\ DragEnd
             /\ attachedObject # None
             /\ startTransform # NoStart
             /\ startTransform.uuid = attachedObject ) =>
            IF Snapshot(startTransform) # xform[attachedObject]
            THEN /\ Extends(past, past', 1)
                 /\ IsTransform(Last(past'), attachedObject,
                                Snapshot(startTransform), xform[attachedObject])
                 /\ future' = <<>>
            ELSE UNCHANGED <<past, future>>
      ]_vars

\* A drag that only turned the object has ended and left its entry on past.
C6_Witness ==
    /\ ~dragging
    /\ Len(past) > 0
    /\ Last(past).type = "transform"
    /\ Last(past).before = Identity
    /\ Last(past).after = Rotated
    /\ xform[Last(past).uuid] = Rotated

\* C7: right after clearAll() on a scene of N >= 1 objects the object list is
\* empty and past ends with N Remove entries in object-list order; the k-th
\* undo() that follows puts back the k most recently recorded removals (the
\* last k objects of the list, the last one first) and leaves the others
\* absent, so one undo restores one object and N undos restore all N.
C7_ClearAllThenUndo ==
    clearRun.objs # <<>> =>
        LET L == clearRun.objs
            N == Len(clearRun.objs)
            k == clearRun.undos
            restored == {clearRun.objs[Len(clearRun.objs) - i + 1] : i \in 1..clearRun.undos}
        IN  /\ objects = [i \in 1..k |-> L[N - i + 1]]
            /\ restored \subseteq scene
            /\ (Range(L) \ restored) \cap scene = {}
            /\ Len(past) >= N - k
            /\ \A i \in 1..(N - k) : IsRemove(past[Len(past) - (N - k) + i], L[i])
            /\ Len(future) = k
            /\ \A i \in 1..k : IsRemove(future[i], L[N - i + 1])
            /\ k = N => Range(objects) = Range(L)

\* Two objects were cleared and two undos have put both back.
C7_Witness ==
    /\ Len(clearRun.objs) = 2
    /\ clearRun.objs[1] # clearRun.objs[2]
    /\ clearRun.undos = 2

\* C8: at most one object of the scene carries the selection highlight
\* material at any time.
C8_AtMostOneHighlighted ==
    Cardinality({o \in scene : material[o] = Highlight}) <= 1

\* C9: the store's selection is either empty or an object of the object list.
C9_SelectionInObjectList ==
    selected # None => selected \in Range(objects)

\* C10: an attach or detach call between drag start and drag end invalidates
\* the in-flight before-capture: the drag end records no Transform entry for
\* that session.  Every such call detaches first and so drops the widget's
\* axis, which a session holds from its start: a drag that ends with no axis
\* is one during which the attachment was changed.
C10_AttachInvalidatesCapture ==
    [][ (DragEnd /\ ~axis) => UNCHANGED <<past, future>> ]_vars

\* C11: while a transform drag is in progress camera orbit navigation is
\* disabled in every reachable state, whatever other commands (sketch enable
\* and disable included) arrive during the drag, and it is enabled again when
\* the drag ends.
C11_NoOrbitWhileDragging ==
    [][ /\ dragging' => ~orbitEnabled'
        /\ DragEnd => orbitEnabled'
      ]_vars

\* C12: disable() called while Drawing leaves the controller Inactive with no
\* preview and no pending anchor (so that, after a later enable(), a
\* pointerMove or pointerUp with no new pointerDown before it finds no session
\* to draw or commit).
C12_DisableDiscardsSession ==
    [][ \A tool \in Tools :
            ( /\ ToggleSketchMode(tool)
              /\ mode = "SKETCH" /\ selectedSketchTool = tool
              /\ isDrawing ) =>
                /\ currentTool' = NoTool
                /\ previewMesh' = NoPreview
                /\ ~isDrawing'
                /\ startPoint' = NoPoint
      ]_vars

\* C13: disable() is idempotent: from any state, disable() twice in a row
\* leaves the same state as disable() once: no tool armed, overlays hidden, no
\* preview in the scene, orbit navigation enabled.
C13_DisableIdempotent ==
    LET once == disableSketchMode(SketchState)
        twice == disableSketchMode(disableSketchMode(SketchState))
    IN  /\ twice = once
        /\ once.currentTool = NoTool
        /\ ~once.sketchPlaneVisible /\ ~once.gridVisible
        /\ once.previewMesh = NoPreview
        /\ once.orbitEnabled

\* The sketch tool was switched off in the middle of a session: the anchor is
\* still pending, the preview and the overlays are gone.
C13_Witness ==
    /\ mode = "3D"
    /\ currentTool = NoTool
    /\ isDrawing
    /\ previewMesh = NoPreview
    /\ ~sketchPlaneVisible /\ ~gridVisible
    /\ orbitEnabled

\* C14: a pointerUp while Drawing, with a point on the work-plane, returns the
\* controller to ToolArmed with no preview left in the scene and hands exactly
\* one new object to the caller, which adds it to the scene and to the object
\* list and pushes exactly one Add entry on past, clearing future.
C14_PointerUpCommitsOne ==
    [][ \A point \in Points :
            ( /\ SketchMouseUp(point)
              /\ isDrawing /\ startPoint # NoPoint /\ currentTool # NoTool ) =>
                /\ currentTool' = currentTool
                /\ ~isDrawing'
                /\ previewMesh' = NoPreview
                /\ created' = created + 1
                /\ created' \notin scene
                /\ scene' = scene \cup {created'}
                /\ objects' = Append(objects, created')
                /\ Extends(past, past', 1) /\ IsAdd(Last(past'), created')
                /\ future' = <<>>
      ]_vars

\* A second shape was sketched after the first one had been undone: its Add
\* is alone on past, future was emptied, and the tool is armed again.
C14_Witness ==
    /\ mode = "SKETCH"
    /\ currentTool # NoTool
    /\ ~isDrawing
    /\ previewMesh = NoPreview
    /\ created = 2
    /\ objects = <<2>>
    /\ 2 \in scene
    /\ Len(past) = 1 /\ IsAdd(past[1], 2)
    /\ future = <<>>

\* C15: a zero-length sketch drag (pointerDown and pointerUp at the same
\* work-plane point) is a silent no-op: no object is added to the scene or to
\* the object list and no history entry is pushed.
C15_ZeroLengthDragNoOp ==
    [][ \A point \in Points :
            ( /\ SketchMouseUp(point)
              /\ isDrawing /\ currentTool # NoTool
              /\ startPoint = point ) =>
                UNCHANGED <<objects, scene, past, future>>
      ]_vars

\* C16: entering wireframe mode and later switching to default or realistic
\* leaves every solid with the material (the same reference) it had
\* immediately before entering wireframe, whatever was done to the object in
\* between.
C16_WireframeRoundTrip ==
    [][ \A newMode \in ViewModes \ {"wireframe"} :
            (SetViewMode(newMode) /\ viewMode = "wireframe") =>
                \A o \in scene :
                    preWire[o] # NoMaterial => material'[o] = preWire[o]
      ]_vars

\* The kinds of primitive the importer rebuilds.
PrimitiveKinds == {"box", "sphere", "cylinder", "cone", "torus", "plane"}

\* The children of a scene that carry metadata, in scene order.
ShapesOf(sceneChildren) ==
    SelectSeq(sceneChildren, LAMBDA child : child.metadata # NoMetadata)

\* C17: export followed by import of a scene whose shapes are all
\* non-extruded primitives reproduces, for every shape and in the same order,
\* an object of the same kind, with the same parameters (and so the same
\* geometry) and an equal position, rotation and scale.
C17_RoundTripReproduces ==
    [][ (/\ ImportScene
         /\ jsonData # Malformed
         /\ \A i \in 1..Len(ShapesOf(children)) :
                TypeOf(ShapesOf(children)[i].metadata) \in PrimitiveKinds)
        => /\ Len(importedObjects') = Len(ShapesOf(children))
           /\ \A i \in 1..Len(ShapesOf(children)) :
                /\ importedObjects'[i].metadata.type = ShapesOf(children)[i].metadata.type
                /\ importedObjects'[i].metadata.parameters
                        = ShapesOf(children)[i].metadata.parameters
                /\ importedObjects'[i].geometry = ShapesOf(children)[i].geometry
                /\ importedObjects'[i].position = ShapesOf(children)[i].position
                /\ importedObjects'[i].rotation = ShapesOf(children)[i].rotation
                /\ importedObjects'[i].scale = ShapesOf(children)[i].scale ]_vars

\* Two distinct primitives, one at a negative coordinate and one scaled, with
\* a helper between them, have been exported and imported.
C17_Witness ==
    /\ Len(children) = 3
    /\ children[2] = Helper
    /\ TypeOf(children[1].metadata) = "torus"
    /\ children[1].position[1] < 0
    /\ TypeOf(children[3].metadata) = "box"
    /\ children[3].scale = <<2, 1, 3>>
    /\ jsonData # Malformed
    /\ Len(importedObjects) = 2

\* The records of a file's data that are of a primitive kind, in file order.
PrimitiveRecords(doc) ==
    SelectSeq(doc.objects, LAMBDA rec : TypeOf(rec.metadata) \in PrimitiveKinds)

\* C18: after the import of a readable, well-formed file whose records are
\* all primitives, the object list holds exactly one new object per record,
\* in file order, each of the record's kind and parameters and at the
\* record's position and scale; the scene holds exactly those objects, and so
\* none of the objects it held before.
C18_ImportReplacesScene ==
    [][ \A doc \in Docs :
            (/\ PrimitiveRecords(doc) = doc.objects
             /\ Import(ReadableFile(JSONstringify(doc))))
            => /\ Len(objects') = Len(doc.objects)
               /\ scene' = Range(objects')
               /\ \A i \in 1..Len(doc.objects) :
                    /\ objects'[i] \notin 1..created
                    /\ \A j \in 1..Len(doc.objects) : objects'[i] = objects'[j] => i = j
                    /\ importedObjects'[i].metadata = doc.objects[i].metadata
                    /\ importedObjects'[i].geometry # <<>>
                    /\ xform'[objects'[i]].position
                            = <<doc.objects[i].position.x, doc.objects[i].position.y,
                                doc.objects[i].position.z>>
                    /\ xform'[objects'[i]].scale
                            = <<doc.objects[i].scale.x, doc.objects[i].scale.y,
                                doc.objects[i].scale.z>> ]_vars

\* A scaled sphere has been imported over a scene that held object 1: the
\* list and the scene hold the new object only.
C18_Witness ==
    /\ objects = <<2>>
    /\ scene = {2}
    /\ Len(importedObjects) = 1
    /\ importedObjects[1].metadata.type = "sphere"
    /\ xform[2] = Scaled
    /\ Len(past) >= 2
    /\ IsAdd(past[1], 1)

\* A file whose import fails: it cannot be read, its text does not parse, or
\* one of its records is of a kind the importer neither rebuilds nor skips
\* as extruded.
ImportFails(file) ==
    \/ ~file.readable
    \/ file.text.syntaxError
    \/ \E i \in 1..Len(file.text.objects) :
            TypeOf(file.text.objects[i].metadata) \notin PrimitiveKinds \cup {"extruded"}

\* C19: an import that hits malformed JSON or an unsupported kind fails as a
\* whole: one failure notification is shown and none of the file's objects
\* is added, neither to the object list nor to the scene.
C19_FailedImportIsWhole ==
    [][ \A file \in Files :
            (Import(file) /\ ImportFails(file))
            => /\ alerts' = alerts + 1
               /\ Range(objects') \subseteq Range(objects)
               /\ scene' \subseteq scene ]_vars

\* C20: a record of kind extruded is skipped and is no failure: in a file of
\* primitives and extruded records with at least one extruded record, the
\* extruded records give no object, every primitive record gives its object,
\* in file order, and no failure notification is shown.
C20_ExtrudedSkipped ==
    [][ \A doc \in Docs :
            (/\ \E i \in 1..Len(doc.objects) : TypeOf(doc.objects[i].metadata) = "extruded"
             /\ \A i \in 1..Len(doc.objects) :
                    TypeOf(doc.objects[i].metadata) \in PrimitiveKinds \cup {"extruded"}
             /\ Import(ReadableFile(JSONstringify(doc))))
            => /\ alerts' = alerts
               /\ Len(objects') = Len(PrimitiveRecords(doc))
               /\ Len(importedObjects') = Len(PrimitiveRecords(doc))
               /\ \A i \in 1..Len(PrimitiveRecords(doc)) :
                    /\ importedObjects'[i].metadata = PrimitiveRecords(doc)[i].metadata
                    /\ objects'[i] \in scene' ]_vars

\* A file of an extruded record followed by a moved box has been imported:
\* the box is the only object.
C20_Witness ==
    /\ ~jsonData.syntaxError
    /\ Len(jsonData.objects) = 2
    /\ jsonData.objects[1].metadata.type = "extruded"
    /\ jsonData.objects[2].metadata.type = "box"
    /\ Len(importedObjects) = 1
    /\ importedObjects[1].metadata.type = "box"
    /\ objects = <<1>>
    /\ scene = {1}
    /\ xform[1] = Moved

\* C30: the saved original of an object is stored once per wireframe
\* session and is never overwritten while in wireframe, so the saved original
\* of an object is never a wireframe material.
C30_SavedOriginalNeverWireframe ==
    \A o \in Objs : wireframeOriginals[o] # Wireframe

\* C29: after setViewMode(default) the edge outline of every object of the
\* scene, the ground grid and the axes are visible; after
\* setViewMode(realistic) they are all hidden; from any previous mode.
C29_OverlaysFollowViewMode ==
    [][ \A newMode \in {"default", "realistic"} :
            SetViewMode(newMode)
            => /\ \A o \in scene' : edgesVisible'[o] = (newMode = "default")
               /\ helpers'.grid = (newMode = "default")
               /\ helpers'.axes = (newMode = "default") ]_vars

\* The view is back to default after a realistic pass: object 1 and the
\* helpers are shown again, while object 2, which left the scene in between,
\* still has its outline hidden.
C29_Witness ==
    /\ viewMode = "default"
    /\ scene = {1}
    /\ edgesVisible[1]
    /\ ~edgesVisible[2]
    /\ helpers.grid
    /\ helpers.axes

\* The states of the sketch controller, read off its fields.
Inactive == currentTool = NoTool
ToolArmed == currentTool # NoTool /\ ~isDrawing
Drawing == currentTool # NoTool /\ isDrawing

\* C26: enabling a tool while the controller is Inactive or ToolArmed leaves
\* it ToolArmed (the tool set, no drawing in progress) with the given tool and
\* hollow flag, the work-plane and the grid shown and the orbit controls
\* disabled; from ToolArmed the tool is switched in that one step.
C26_EnableArmsTool ==
    [][ \A tool \in Tools :
            (/\ ToggleSketchMode(tool)
             /\ ~(mode = "SKETCH" /\ selectedSketchTool = tool)
             /\ (Inactive \/ ToolArmed))
            => /\ currentTool' = tool
               /\ hollow' = sketchOptions.hollow
               /\ sketchPlaneVisible'
               /\ gridVisible'
               /\ ~orbitEnabled'
               /\ ToolArmed' ]_vars

\* C27: sketch pointer events outside their state are ignored.  While
\* Inactive the three handlers of the controller leave it as it is and return
\* no object; while ToolArmed so do the move and the release, and the canvas
\* handlers then add no preview and change neither the object list, nor the
\* scene, nor the history.
C27_PointerIgnoredOutsideState ==
    [][ /\ \A point \in Points \cup {NoPoint} :
            /\ Inactive =>
                /\ handleMouseDown(SketchState, point) = SketchState
                /\ handleMouseMove(SketchState, point) = SketchState
                /\ handleMouseUp(SketchState, point) = SketchState
                /\ ~ReturnsShape(SketchState, point)
            /\ ToolArmed =>
                /\ handleMouseMove(SketchState, point) = SketchState
                /\ handleMouseUp(SketchState, point) = SketchState
                /\ ~ReturnsShape(SketchState, point)
            /\ ((SketchMouseMove(point) \/ SketchMouseUp(point)) /\ ToolArmed) =>
                /\ previewMesh' = NoPreview
                /\ UNCHANGED <<objects, scene, past, future>> ]_vars

\* A tool is armed again after a commit: one object sketched, no drawing in
\* progress, no preview.
C27_Witness ==
    /\ mode = "SKETCH"
    /\ ToolArmed
    /\ previewMesh = NoPreview
    /\ Len(objects) = 1
    /\ scene = {1}

\* The profile a sketched group was built from, its number of points and its
\* extent along the two axes of the plane.  A full arc is a closed curve; the
\* sampled and the regular boundaries lie on the circle or ellipse of their
\* radii.
ProfileOf(group) ==
    IF "shape2D" \in DOMAIN group.userData
    THEN group.userData.shape2D
    ELSE group.children[1].geometry.shapes
HasThreePoints(path) ==
    CASE path.kind = "polyline" -> Len(path.points) >= 3
      [] path.kind = "arc" -> TRUE
      [] path.kind = "sampled" -> path.count >= 3
      [] path.kind = "regular" -> path.sides >= 3
SpanOf(S) == (CHOOSE hi \in S : \A v \in S : v <= hi) - (CHOOSE lo \in S : \A v \in S : lo <= v)
Extent(path) ==
    CASE path.kind = "polyline" ->
            << SpanOf({path.points[i][1] : i \in DOMAIN path.points}),
               SpanOf({path.points[i][2] : i \in DOMAIN path.points}) >>
      [] path.kind = "arc" -> <<2 * path.radius, 2 * path.radius>>
      [] path.kind = "sampled" -> <<2 * path.xRadius, 2 * path.yRadius>>
      [] path.kind = "regular" -> <<2 * path.radius, 2 * path.radius>>
StrictlySmaller(inner, outer) ==
    /\ Extent(inner)[1] < Extent(outer)[1]
    /\ Extent(inner)[2] < Extent(outer)[2]

\* C21: the profile of every committed sketch, whatever the tool and the two
\* anchors (equal anchors included), has an outer boundary of at least 3
\* points, and in hollow mode its inner boundary is strictly smaller in
\* extent than the outer one.
C21_ProfileWellFormed ==
    (built.op = "createShape" /\ built.group # EmptyGroup) =>
        LET profile == ProfileOf(built.group) IN
        /\ HasThreePoints(profile.outer)
        /\ \A i \in DOMAIN profile.holes : StrictlySmaller(profile.holes[i], profile.outer)

\* Where the i-th child of a group is in world space: the group is neither
\* turned nor scaled, so its position is added to the child's.
WorldPosition(group, i) ==
    << group.position[1] + group.children[i].position[1],
       group.position[2] + group.children[i].position[2],
       group.position[3] + group.children[i].position[3] >>
\* A commit is flat unless a solid is asked for: extrusion enabled with a
\* positive depth.
SolidAsked == extrudeEnabled /\ extrudeDepth > 0

C23_ExtrudeKeepsPlacement ==
    [][ \A depthArg \in DepthArgs :
            (/\ ExtrudeExisting(depthArg)
             /\ built.op = "createShape"
             /\ built.group.children # <<>>
             /\ built.group.children[1].geometry.type = "ShapeGeometry")
            => /\ built'.mesh # NoObject
               /\ built'.group.children = <<built'.mesh>>
               /\ built'.mesh.geometry.type = "ExtrudeGeometry"
               /\ built'.mesh.geometry.depth =
                    IF depthArg # <<>> THEN depthArg[1] ELSE built.group.userData.extrudeDepth
               /\ WorldPosition(built'.group, 1)[1] = WorldPosition(built.group, 1)[1]
               /\ WorldPosition(built'.group, 1)[3] = WorldPosition(built.group, 1)[3] ]_vars

\* C24: the object committed on pointer-up is a solid extruded by the
\* configured depth, centred at height depth/2, when extrusion is enabled
\* with a positive depth, and otherwise a flat object on the work-plane (a
\* filled shape, or the outline drawn in hollow mode), for every tool and for
\* both settings of the hollow flag.
C24_SolidWhenExtruding ==
    [][ \A hit \in Hits :
            (/\ HandleMouseUp(hit)
             /\ ReturnsShape(SketchState, getIntersectionPoint(SketchState, hit)))
            => /\ built'.op = "createShape"
               /\ Len(built'.group.children) = 1
               /\ IF SolidAsked
                  THEN /\ built'.group.children[1].type = "Mesh"
                       /\ built'.group.children[1].geometry.type = "ExtrudeGeometry"
                       /\ built'.group.children[1].geometry.depth = extrudeDepth
                       /\ WorldPosition(built'.group, 1)[2] = extrudeDepth \div 2
                  ELSE /\ built'.group.children[1].geometry.type \in {"ShapeGeometry", "BufferGeometry"}
                       /\ WorldPosition(built'.group, 1)[2] = 10 ]_vars

\* C28: after enableSketchMode("polygon", hollow, requestedSides) the number
\* of sides a polygon profile is built with is max(3, floor(requestedSides)),
\* for every requestedSides, those below 3 and the non-integer ones included.
C28_PolygonSidesClamped ==
    [][ \A hollowArg \in BOOLEAN, sidesArg \in SidesArgs \ {None} :
            EnableSketchMode("polygon", hollowArg, sidesArg)
            => PolygonSidesOf(SketchState') = Max(3, sidesArg \div Unit) ]_vars

\* C25: the face and edge counts of a created primitive are fixed by its
\* parameters: box 6 and 12; sphere widthSegments*heightSegments faces and
\* twice as many edges; torus radialSegments*tubularSegments faces and as
\* many edges; plane 2 and 4.  Creating a box with the default parameters in
\* an empty scene gives a scene of one object of kind box with 6 faces and 12
\* edges.
C25_CountsFollowParameters ==
    [][ children' # children =>
            LET metadata == children'[Len(children')].metadata
                parameters == metadata.parameters
            IN  /\ Len(children') = Len(children) + 1
                /\ metadata.type = "box" =>
                        metadata.faceCount = 6 /\ metadata.edgeCount = 12
                /\ metadata.type = "sphere" =>
                        /\ metadata.faceCount =
                                parameters.widthSegments * parameters.heightSegments
                        /\ metadata.edgeCount = 2 * metadata.faceCount
                /\ metadata.type = "torus" =>
                        /\ metadata.faceCount =
                                parameters.radialSegments * parameters.tubularSegments
                        /\ metadata.edgeCount = metadata.faceCount
                /\ metadata.type = "plane" =>
                        metadata.faceCount = 2 /\ metadata.edgeCount = 4
                /\ (HandleCreateBox /\ children = <<>>) =>
                        /\ Len(children') = 1
                        /\ metadata.type = "box"
                        /\ parameters = [width |-> 1, height |-> 1, depth |-> 1]
                        /\ metadata.faceCount = 6
                        /\ metadata.edgeCount = 12 ]_vars

C25_Witness ==
    /\ Len(children) = 2
    /\ children[1].metadata.type = "box"
    /\ children[1].metadata.faceCount = 6
    /\ children[2].metadata.type = "sphere"
    /\ children[2].metadata.parameters.widthSegments = 32
    /\ children[2].metadata.parameters.heightSegments = 16
    /\ children[2].metadata.edgeCount = 1024

\* The material an object has under its highlight, if it wears one as the
\* current selection, and its material otherwise.
PreHighlight(object) ==
    IF selected = object /\ originalMaterials[object] # NoMaterial
    THEN originalMaterials[object]
    ELSE material[object]

\* C31: select(object) highlights the object and keeps the material it had
\* before the highlight; the next clearSelection(), or select of another
\* object, puts exactly that material back on it and changes nothing else
\* but the newly selected object; clearSelection() with no highlighted
\* selection changes no material.
C31_HighlightRestored ==
    [][ /\ \A object \in Objs :
            SelectObject(object) =>
                /\ material'[object] = Highlight
                /\ originalMaterials'[object] = PreHighlight(object)
                /\ \A first \in Objs \ {object} :
                        /\ material'[first] = PreHighlight(first)
                        /\ selected = first => originalMaterials'[first] = NoMaterial
        /\ ClearSelection =>
                /\ \A first \in Objs : material'[first] = PreHighlight(first)
                /\ selected # None => originalMaterials'[selected] = NoMaterial
                /\ (selected = None \/ originalMaterials[selected] = NoMaterial)
                        => material' = material ]_vars

C31_Witness ==
    /\ selected = 2
    /\ material[2] = Highlight
    /\ originalMaterials[2] = Wireframe
    /\ 1 \in scene
    /\ material[1] = Wireframe
    /\ originalMaterials[1] = NoMaterial

\* C32: the commands that are not edits leave the history as it is: setting
\* the store's mode or the transform mode, attaching the widget, selecting
\* and clearing the selection, showing and hiding an object and changing the
\* view mode never modify past or future.
C32_NonEditsKeepHistory ==
    [][ (\/ ToggleSketchMode("rectangle")
         \/ \E newMode \in TransformModes : SetTransformMode(newMode)
         \/ \E object \in Objs : SelectObject(object)
         \/ ClearSelection
         \/ ToggleVisibility
         \/ \E object \in Objs : ToggleObjectVisibility(object)
         \/ ToggleSelectedVisibility
         \/ \E newMode \in ViewModes : SetViewMode(newMode))
        => UNCHANGED <<past, future>> ]_vars

C32_Witness ==
    /\ past # <<>>
    /\ future # <<>>
    /\ selected # None
    /\ attachedObject = selected
    /\ ~visible[selected]
    /\ transformMode = "scale"
    /\ viewMode = "realistic"
    /\ mode = "SKETCH"

\* C33: a removal that names an object which is neither in the object list
\* nor in the scene changes nothing: removeObject of such an object, and
\* removeSelected when the selection is such an object, leave the object
\* list, the scene, past and future as they were.
C33_RemovingUnknownIsNoOp ==
    [][ /\ \A object \in Objs :
            (RemoveObject(object) /\ object \notin Range(objects) /\ object \notin scene)
            => UNCHANGED <<objects, scene, past, future>>
        /\ (/\ RemoveSelected
            /\ selected # None /\ selected \notin Range(objects) /\ selected \notin scene)
            => UNCHANGED <<objects, scene, past, future>> ]_vars

\* C34: the object list never holds the same object twice, whatever
\* creations, selections, removals of the selection, clearAll, undos and
\* redos led to the state.
C34_NoDuplicateObjects ==
    \A i \in DOMAIN objects, j \in DOMAIN objects : i # j => objects[i] # objects[j]

\* The objects left by replaying the Add and Remove entries of a history, in
\* order, from the empty scene; Transform entries change no membership.
RECURSIVE Replay(_)
Replay(p) ==
    IF p = <<>>
    THEN {}
    ELSE LET op == Last(p) IN
         IF op.type = "add" THEN Replay(Front(p)) \cup {op.object}
         ELSE IF op.type = "remove" THEN Replay(Front(p)) \ {op.object}
         ELSE Replay(Front(p))

\* C35: at every reachable state, states reached through import included,
\* the objects of the object list are exactly those left by replaying the
\* Add and Remove entries of past from the empty scene.
C35_ListIsReplayOfPast ==
    Range(objects) = Replay(past)

\* C36: orbit navigation is enabled exactly when no sketch tool is enabled
\* and no drag of the transform widget is in progress, however enabling and
\* disabling the sketch mode interleave with the start and end of drags.
C36_OrbitIffIdle ==
    orbitEnabled <=> (currentTool = NoTool /\ ~dragging)

\* C37: the sketch work-plane and the sketch grid are visible exactly while
\* a sketch tool is enabled, whatever grid-size and view-mode changes happen
\* in between.
C37_OverlaysIffToolEnabled ==
    /\ sketchPlaneVisible <=> currentTool # NoTool
    /\ gridVisible <=> currentTool # NoTool

\* C38: in the default and the realistic view no object of the scene shows
\* the wireframe material, and in no view does an object of the scene that is
\* not selected show the highlight material.
C38_NoStrayMaterial ==
    \A o \in scene :
        /\ viewMode # "wireframe" => material[o] # Wireframe
        /\ selected # o => material[o] # Highlight

\* C39: the scene never holds more than one sketch preview, and it holds one
\* only while a tool is enabled and a drawing is in progress.
C39_OnePreviewWhileDrawing ==
    /\ previewsInScene <= 1
    /\ previewsInScene # 0 => Drawing
    /\ previewMesh # NoPreview <=> previewsInScene = 1

\* The pointer moved away from the anchor of a drawing: the one preview on
\* show ends at a point other than the anchor.
C39_Witness ==
    /\ Drawing
    /\ previewsInScene = 1
    /\ previewMesh # NoPreview
    /\ previewMesh.end # startPoint

====
